---- MODULE Spec2Model ----
(***************************************************************************)
(* Model of the concurrent DynamoDB Streams subscriber                     *)
(* (internal/stream_subscriber_v2.go, GetStreamDataAsync and processShard) *)
(* together with the consumer that drains its record and error channels    *)
(* (internal/stream_style_verification.go, RunStreamStyleVerification):    *)
(* its statistics, its validation buffer and its validation workers.        *)
(*                                                                         *)
(* Goroutines: ticker, discovery, dispatcher, one reader per spawned shard, *)
(* the consumer and the validation workers.  Provider calls (DescribeTable, DescribeStream,        *)
(* GetShardIterator, GetRecords) answer nondeterministically.               *)
(***************************************************************************)
EXTENDS Integers, Sequences, FiniteSets, TLC

\* ---------------------------------------------------------------- bounds
\* Shard ids the provider may list in the general specification.
NumShards == 2
\* Longest shard listing a DescribeStream call returns in the general specification.
MaxListLen == 2
\* Ticks of the one-minute ticker that are explored.
MaxTicks == 1
\* Shard ids of the reading specification.
NumReadShards == 2
\* Records the provider hands out per reader, and the largest page.
MaxRecords == 3
\* Shard ids of the wide specifications (more shards than semaphore slots).
NumWideShards == 6

\* Records fed to the consumer in the sampling specification.
MaxSampleFeed == 10
\* Records fed to the consumer in the validation specification.
MaxVerifyFeed == 3
\* Records fed to the consumer in the overflow specification (one more than
\* the validation channel holds).
MaxOverflowFeed == 11

\* Shards of the slot specification (two more than semaphore slots).
NumSlotShards == 7

\* Arrays the slice specification allocates at most.
MaxHeap == 5

\* Seconds the clock of the timed specification runs.
MaxClock == 9

\* ------------------------------------------------------ program constants
\* shardProcessingLimit: capacity of shardsCh and of the limit semaphore.
shardProcessingLimit == 5
\* Capacity of recCh, errCh and needUpdate.
ChanCap == 1
\* Capacity of validationCh.
ValidationChCap == 10

Shards == 1..NumShards
\* Stream identifiers DescribeTable returns: the one before and the one
\* after a rotation.
Arns == {1, 2}

VARIABLES
    needUpdate,   \* number of signals buffered in the needUpdate channel
    tpc,          \* ticker goroutine: "idle" (waiting for ticker.C) or "send"
    ticks,        \* ticks delivered so far
    dpc,          \* discovery goroutine: "wait", "resolve", "list", "each",
                  \*   "send" (lock held, blocked on shardsCh), "pub", "returned"
    dArn,         \* arn of the current refresh (0 outside a refresh)
    dIds,         \* shard ids of the current listing not yet looked at
    dErr,         \* error the discovery goroutine is about to publish
    lock,         \* sync.Mutex guarding allShards: TRUE when held
    allShards,    \* set of known shard ids
    shardsCh,     \* queue of GetShardIteratorInput requests
    enq,          \* requests ever put on shardsCh, in order
    ppc,          \* dispatcher goroutine: "sleep", "recv", "acquire"
    pIn,          \* request the dispatcher holds
    limit,        \* slots held in the limit semaphore
    readers,      \* sequence of reader goroutines in spawn order
    recCh,        \* record channel
    errCh,        \* error channel
    delivered,    \* per reader, the record numbers the consumer received
    polls,        \* parity of the GetRecords calls answered so far
    sampleRate,   \* cfg.SampleRate once the default has been applied
    cpc,          \* consumer: "run" (in its select loop) or "returned"
    total,        \* stats.TotalCount
    insert,       \* stats.InsertCount
    modify,       \* stats.ModifyCount
    eventIDs,     \* stats.EventIDs, the set of its keys
    repeated,     \* some counted record carried an event id already recorded
    vCount,       \* stats.ValidationCount
    vSuccess,     \* stats.ValidationSuccess
    vFailed,      \* stats.ValidationFailed
    validationBuffer,  \* sampled records not yet flushed
    validationCh, \* queue of batches
    workers,      \* validation workers: [1] is the channel worker, the
                  \*   others are one-shot workers in spawn order
    fed,          \* records put on recCh by the record source
    flushes,      \* parity of the calls of processValidationBuffer
    cancelled,    \* the interrupt was delivered (c has it, ctx is cancelled)
    finalPrints,  \* calls of printStats made by the shutdown branch
    now,          \* the time, in seconds
    visibleFrom,  \* per partition key, the time from which GetItem on the
                  \*   verified side returns its item
    handedAt,     \* per partition key, the time its batch was flushed
    cfgIteratorType,  \* cfg.IteratorType
    iteratorType, \* subscriber.ShardIteratorType
    heap,         \* backing arrays of the validation slices
    bufRef,       \* validationBuffer as a slice: its array and its length
    batchRefs,    \* the batch slices flushed and not yet processed
    config,       \* cfg.PartitionKey, cfg.SortKey and cfg.VerifyOn
    verified,     \* verifiedClient and verifiedTable, given to the subscriber
    keyBuffer,    \* validationBuffer as ValidationRecords (both key values)
    getItem,      \* the GetItemInput of the last lookup, and its client
    single        \* the goroutine of GetStreamData (single-shard variant)

statsVars == <<total, insert, modify, eventIDs, vCount, vSuccess, vFailed>>

cancelVars == <<cancelled, finalPrints>>
clockVars == <<now, visibleFrom>>
policyVars == <<cfgIteratorType, iteratorType>>
memVars == <<heap, bufRef, batchRefs>>
keyVars == <<config, verified, keyBuffer, getItem>>

\* State of RunStreamStyleVerification.
verVars == <<sampleRate, cpc, total, insert, modify, eventIDs, repeated,
             vCount, vSuccess, vFailed, validationBuffer, validationCh,
             workers, fed, flushes, cancelVars, clockVars, handedAt,
             policyVars, keyVars, single, memVars>>

vars == <<needUpdate, tpc, ticks, dpc, dArn, dIds, dErr, lock, allShards,
          shardsCh, enq, ppc, pIn, limit, readers, recCh, errCh, delivered,
          polls, verVars>>

tickerVars == <<needUpdate, tpc, ticks>>
discVars == <<dpc, dArn, dIds, dErr, lock, allShards, shardsCh, enq>>
dispVars == <<ppc, pIn>>

NoReq == [arn |-> 0, shard |-> 0, type |-> "none"]

Range(s) == {s[i] : i \in 1..Len(s)}

\* Sequences over S of length at most n.
SeqsUpTo(S, n) == UNION {[1..k -> S] : k \in 0..n}

\* The first k shard ids, in id order, for every k up to n.
PrefixListings(n) == {[i \in 1..k |-> i] : k \in 0..n}

\* Listings of the general specification: any order, repeats allowed.
Listings == SeqsUpTo(Shards, MaxListLen)

\* cfg.SampleRate as RunStreamStyleVerification uses it: 100 when the
\* configured rate is not positive.
DefaultSampleRate == 100

EffectiveSampleRate(n) == IF n <= 0 THEN DefaultSampleRate ELSE n

\* A worker goroutine.  pc: "idle" (the channel worker waiting for a
\* batch), "load"/"store" (stats.ValidationCount++ as a read and a write),
\* "look1"/"look2" (first lookup, retry), "vload"/"vstore" (the verdict
\* counter's ++), "done" (a one-shot worker that returned).  batch: the
\* batch it holds; i: the record it is at; tmp: the counter value it read;
\* looks: lookups made for the current record; hit: a lookup found the item;
\* erred: a lookup of the current record failed with a provider error;
\* sleep: seconds left of the time.Sleep it is in (0: it is not asleep).
IdleWorker ==
    [pc |-> "idle", batch |-> <<>>, i |-> 0, tmp |-> 0, looks |-> 0,
     hit |-> FALSE, erred |-> FALSE, sleep |-> 0]

\* time.Sleep(5 * time.Second) and time.Sleep(2 * time.Second) of
\* processValidationBatch.
ReplicationWait == 5

RetryWait == 2

\* The iterator type RunStreamStyleVerification sets for a configured
\* cfg.IteratorType.
PolicyOf(cfg) == IF cfg = "TRIM_HORIZON" THEN "TRIM_HORIZON" ELSE "LATEST"

\* The clock at the start, with the visibility times vf of the items.
InitClock(vf) ==
    /\ now = 0
    /\ visibleFrom = vf
    /\ handedAt = [k \in {} |-> 0]

\* The subscriber's iterator type under the configured cfg.IteratorType.
InitPolicy(cfg) ==
    /\ cfgIteratorType = cfg
    /\ iteratorType = PolicyOf(cfg)

\* validationBuffer := make([]ValidationRecord, 0) : a slice of length 0 on
\* an array of capacity 0, and no batch yet.
InitMemory ==
    /\ heap = <<<<>>>>
    /\ bufRef = [arr |-> 1, len |-> 0]
    /\ batchRefs = <<>>

\* No lookup made yet.
NoCall == [client |-> "none", TableName |-> "none", Key |-> {}]

\* The configuration main() passes: a partition key, no sort key, and
\* VerifyOn left at its zero value.
PlainConfig ==
    [PartitionKey |-> "id", SortKey |-> "", VerifyOn |-> "",
     TargetTable |-> "t1"]

\* verifiedClient := cfg.TargetClient, replaced by cfg.SourceClient when
\* cfg.VerifyOn == "source"; verifiedTable := cfg.TargetTable.
VerifiedClient(c) == IF c.VerifyOn = "source" THEN "source" ELSE "target"

\* The key configuration c, the subscriber's client and table chosen from
\* it, an empty buffer and no lookup yet.
InitKeys(c) ==
    /\ config = c
    /\ verified = [client |-> VerifiedClient(c), table |-> c.TargetTable]
    /\ keyBuffer = <<>>
    /\ getItem = NoCall

\* GetStreamData before the first turn of its loop: var shardID,
\* prevShardID *string (shard id 0 is nil).  pc: "find" (about to call
\* findProperShardID), "pubFind" (errCh <- err after it failed), "iter",
\* "get", "send", "pause" (inside processShard), "pubProc" (errCh <- err
\* after processShard failed), "sleep" (the 10 s sleep without a shard).
\* shards: the listing just returned (empty otherwise).  page: records of the last response not yet
\* sent, got: their number, next: the token it holds is non-nil, sleep: the
\* pause chosen, in milliseconds.  reads: the shards it obtained an iterator
\* for, in order.  ended: the shards it read until their token was nil.
InitSingle ==
    single = [pc |-> "find", shardID |-> 0, prevShardID |-> 0,
              shards |-> <<>>, page |-> 0, got |-> 0, next |-> FALSE,
              sleep |-> 0, reads |-> <<>>, ended |-> {}]

\* RunStreamStyleVerification up to its select loop, configured with sample
\* rate n: empty statistics, empty buffer, the channel worker started.
InitConsumer(n) ==
    /\ sampleRate = EffectiveSampleRate(n)
    /\ cpc = "run"
    /\ total = 0
    /\ insert = 0
    /\ modify = 0
    /\ eventIDs = {}
    /\ repeated = FALSE
    /\ vCount = 0
    /\ vSuccess = 0
    /\ vFailed = 0
    /\ validationBuffer = <<>>
    /\ validationCh = <<>>
    /\ workers = <<IdleWorker>>
    /\ fed = 0
    /\ flushes = 0
    /\ cancelled = FALSE
    /\ finalPrints = 0

\* The same, with iterator type LATEST and no item visibility given.
InitVerification(n) ==
    /\ InitConsumer(n)
    /\ InitClock([k \in {} |-> 0])
    /\ InitPolicy("LATEST")
    /\ InitMemory
    /\ InitKeys(PlainConfig)
    /\ InitSingle

\* The subscriber as GetStreamDataAsync returns it.
InitSubscriber ==
    /\ needUpdate = 1
    /\ tpc = "idle"
    /\ ticks = 0
    /\ dpc = "wait"
    /\ dArn = 0
    /\ dIds = <<>>
    /\ dErr = "none"
    /\ lock = FALSE
    /\ allShards = {}
    /\ shardsCh = <<>>
    /\ enq = <<>>
    /\ ppc = "sleep"
    /\ pIn = NoReq
    /\ limit = 0
    /\ readers = <<>>
    /\ recCh = <<>>
    /\ errCh = <<>>
    /\ delivered = <<>>
    /\ polls = 0

\* The default configuration: no sample rate given.
Init == InitSubscriber /\ InitVerification(0)

\* ---------------------------------------------------------------- ticker
\* ticker.C delivers a tick: the goroutine moves on to the channel send.
TickerFire ==
    /\ tpc = "idle"
    /\ ticks < MaxTicks
    /\ tpc' = "send"
    /\ ticks' = ticks + 1
    /\ UNCHANGED <<needUpdate, discVars, dispVars, limit, readers, recCh,
                   errCh, delivered,
                   polls>>
    /\ UNCHANGED verVars

\* Variant of TickerSend with a non-blocking send: a tick that finds the
\* channel full is dropped.
TickerSend_DropWhenFull ==
    /\ tpc = "send"
    /\ needUpdate' = IF needUpdate < ChanCap THEN needUpdate + 1
                     ELSE needUpdate
    /\ tpc' = "idle"
    /\ UNCHANGED <<ticks, discVars, dispVars, limit, readers, recCh, errCh,
                   delivered,
                   polls>>
    /\ UNCHANGED verVars

\* needUpdate <- struct{}{} : a plain send, blocks while the channel is full.
TickerSend ==
    /\ tpc = "send"
    /\ needUpdate < ChanCap
    /\ needUpdate' = needUpdate + 1
    /\ tpc' = "idle"
    /\ UNCHANGED <<ticks, discVars, dispVars, limit, readers, recCh, errCh,
                   delivered,
                   polls>>
    /\ UNCHANGED verVars

\* ------------------------------------------------------------- discovery
\* for range needUpdate: take one refresh signal.
DiscRecvSignal ==
    /\ dpc = "wait"
    /\ needUpdate > 0
    /\ needUpdate' = needUpdate - 1
    /\ dpc' = "resolve"
    /\ UNCHANGED <<tpc, ticks, dArn, dIds, dErr, lock, allShards, shardsCh,
                   enq, dispVars, limit, readers, recCh, errCh, delivered,
                   polls>>
    /\ UNCHANGED verVars

\* getLatestStreamArn succeeds with stream identifier a.
DiscResolveOk(a) ==
    /\ dpc = "resolve"
    /\ dArn' = a
    /\ dpc' = "list"
    /\ UNCHANGED <<tickerVars, dIds, dErr, lock, allShards, shardsCh, enq,
                   dispVars, limit, readers, recCh, errCh, delivered,
                   polls>>
    /\ UNCHANGED verVars

\* getLatestStreamArn fails: DescribeTable error ("provider") or no
\* LatestStreamArn ("emptyarn").  The goroutine goes on to errCh <- err.
DiscResolveFail(e) ==
    /\ dpc = "resolve"
    /\ dErr' = e
    /\ dpc' = "pub"
    /\ UNCHANGED <<tickerVars, dArn, dIds, lock, allShards, shardsCh, enq,
                   dispVars, limit, readers, recCh, errCh, delivered,
                   polls>>
    /\ UNCHANGED verVars

\* getShardIDs succeeds with listing ids (empty when no shards are described).
DiscListOk(ids) ==
    /\ dpc = "list"
    /\ dIds' = ids
    /\ dpc' = IF ids = <<>> THEN "wait" ELSE "each"
    /\ dArn' = IF ids = <<>> THEN 0 ELSE dArn
    /\ UNCHANGED <<tickerVars, dErr, lock, allShards, shardsCh, enq,
                   dispVars, limit, readers, recCh, errCh, delivered,
                   polls>>
    /\ UNCHANGED verVars

\* getShardIDs fails (DescribeStream error).
DiscListFail ==
    /\ dpc = "list"
    /\ dErr' = "provider"
    /\ dpc' = "pub"
    /\ UNCHANGED <<tickerVars, dArn, dIds, lock, allShards, shardsCh, enq,
                   dispVars, limit, readers, recCh, errCh, delivered,
                   polls>>
    /\ UNCHANGED verVars

\* Variant of DiscPublishErr that forgets the known shards on failure.
DiscPublishErr_Clear ==
    /\ dpc = "pub"
    /\ Len(errCh) < ChanCap
    /\ errCh' = Append(errCh, [from |-> 0, kind |-> dErr])
    /\ dpc' = "returned"
    /\ allShards' = {}
    /\ UNCHANGED <<tickerVars, dArn, dIds, dErr, lock, shardsCh, enq,
                   dispVars, limit, readers, recCh, delivered,
                   polls>>
    /\ UNCHANGED verVars

\* errCh <- err; return : the discovery goroutine ends.
DiscPublishErr ==
    /\ dpc = "pub"
    /\ Len(errCh) < ChanCap
    /\ errCh' = Append(errCh, [from |-> 0, kind |-> dErr])
    /\ dpc' = "returned"
    /\ UNCHANGED <<tickerVars, dArn, dIds, dErr, lock, allShards, shardsCh,
                   enq, dispVars, limit, readers, recCh, delivered,
                   polls>>
    /\ UNCHANGED verVars

\* Variant of DiscVisitShard without the allShards test: every listed id is
\* inserted and sent.
DiscVisitShard_NoTest ==
    /\ dpc = "each"
    /\ ~lock
    /\ allShards' = allShards \cup {Head(dIds)}
    /\ lock' = TRUE
    /\ dpc' = "send"
    /\ UNCHANGED <<tickerVars, dIds, dArn, dErr, shardsCh, enq, dispVars,
                   limit, readers, recCh, errCh, delivered,
                   polls>>
    /\ UNCHANGED verVars

\* One iteration of the loop over the listing, up to the channel send:
\* lock, test allShards, insert when unseen.  A seen id unlocks at once.
DiscVisitShard ==
    /\ dpc = "each"
    /\ ~lock
    /\ LET id == Head(dIds) IN
         IF id \in allShards
           THEN /\ dIds' = Tail(dIds)
                /\ dpc' = IF Tail(dIds) = <<>> THEN "wait" ELSE "each"
                /\ dArn' = IF Tail(dIds) = <<>> THEN 0 ELSE dArn
                /\ UNCHANGED <<lock, allShards>>
           ELSE /\ allShards' = allShards \cup {id}
                /\ lock' = TRUE
                /\ dpc' = "send"
                /\ UNCHANGED <<dIds, dArn>>
    /\ UNCHANGED <<tickerVars, dErr, shardsCh, enq, dispVars, limit,
                   readers, recCh, errCh, delivered,
                   polls>>
    /\ UNCHANGED verVars

\* Variant of DiscEnqueue with a non-blocking send: a request that finds the
\* queue full is discarded.
DiscEnqueue_DropWhenFull ==
    /\ dpc = "send"
    /\ LET req == [arn |-> dArn, shard |-> Head(dIds), type |-> iteratorType]
           room == Len(shardsCh) < shardProcessingLimit
       IN /\ shardsCh' = IF room THEN Append(shardsCh, req) ELSE shardsCh
          /\ enq' = IF room THEN Append(enq, req) ELSE enq
    /\ lock' = FALSE
    /\ dIds' = Tail(dIds)
    /\ dpc' = IF Tail(dIds) = <<>> THEN "wait" ELSE "each"
    /\ dArn' = IF Tail(dIds) = <<>> THEN 0 ELSE dArn
    /\ UNCHANGED <<tickerVars, dErr, allShards, dispVars, limit,
                   readers, recCh, errCh, delivered,
                   polls>>
    /\ UNCHANGED verVars

\* Variant of DiscEnqueue that asks for LATEST on every refresh but the
\* first.
DiscEnqueue_LatestOnRefresh ==
    /\ dpc = "send"
    /\ Len(shardsCh) < shardProcessingLimit
    /\ LET req == [arn |-> dArn, shard |-> Head(dIds),
                   type |-> IF ticks = 0 THEN iteratorType ELSE "LATEST"]
       IN /\ shardsCh' = Append(shardsCh, req)
          /\ enq' = Append(enq, req)
    /\ lock' = FALSE
    /\ dIds' = Tail(dIds)
    /\ dpc' = IF Tail(dIds) = <<>> THEN "wait" ELSE "each"
    /\ dArn' = IF Tail(dIds) = <<>> THEN 0 ELSE dArn
    /\ UNCHANGED <<tickerVars, dErr, allShards, dispVars, limit,
                   readers, recCh, errCh, delivered,
                   polls>>
    /\ UNCHANGED verVars

\* shardsCh <- request (blocks while the queue is full), then unlock.
DiscEnqueue ==
    /\ dpc = "send"
    /\ Len(shardsCh) < shardProcessingLimit
    /\ LET req == [arn |-> dArn, shard |-> Head(dIds), type |-> iteratorType] IN
         /\ shardsCh' = Append(shardsCh, req)
         /\ enq' = Append(enq, req)
    /\ lock' = FALSE
    /\ dIds' = Tail(dIds)
    /\ dpc' = IF Tail(dIds) = <<>> THEN "wait" ELSE "each"
    /\ dArn' = IF Tail(dIds) = <<>> THEN 0 ELSE dArn
    /\ UNCHANGED <<tickerVars, dErr, allShards, dispVars, limit,
                   readers, recCh, errCh, delivered,
                   polls>>
    /\ UNCHANGED verVars

\* ------------------------------------------------------------ dispatcher
\* time.Sleep(10 * time.Second) is over.
DispWake ==
    /\ ppc = "sleep"
    /\ ppc' = "recv"
    /\ UNCHANGED <<tickerVars, discVars, pIn, limit, readers, recCh, errCh,
                   delivered,
                   polls>>
    /\ UNCHANGED verVars

\* for shardInput := range shardsCh
DispRecv ==
    /\ ppc = "recv"
    /\ shardsCh # <<>>
    /\ pIn' = Head(shardsCh)
    /\ shardsCh' = Tail(shardsCh)
    /\ ppc' = "acquire"
    /\ UNCHANGED <<tickerVars, dpc, dArn, dIds, dErr, lock, allShards, enq,
                   limit, readers, recCh, errCh, delivered,
                   polls>>
    /\ UNCHANGED verVars

\* A reader goroutine as it starts.  pc: "iter" (GetShardIterator), "get"
\* (GetRecords), "send" (sending its page), "err" (processShard returned an
\* error), "exited".  next: the iterator token it holds is non-nil.  given:
\* records it was handed.  cause: why processShard returned.  errs: errors
\* it put on errCh.
NewReader(req) ==
    [shard |-> req.shard, arn |-> req.arn, pc |-> "iter", page |-> <<>>,
     next |-> FALSE, given |-> 0, cause |-> "none", errs |-> 0]

\* Variant of DispSpawn that does not wait for a free slot.
DispSpawn_NoWait ==
    /\ ppc = "acquire"
    /\ limit' = limit + 1
    /\ readers' = Append(readers, NewReader(pIn))
    /\ delivered' = Append(delivered, <<>>)
    /\ pIn' = NoReq
    /\ ppc' = "recv"
    /\ UNCHANGED <<tickerVars, discVars, recCh, errCh,
                   polls>>
    /\ UNCHANGED verVars

\* limit <- struct{}{} (blocks while five slots are held); go func(input).
DispSpawn ==
    /\ ppc = "acquire"
    /\ limit < shardProcessingLimit
    /\ limit' = limit + 1
    /\ readers' = Append(readers, NewReader(pIn))
    /\ delivered' = Append(delivered, <<>>)
    /\ pIn' = NoReq
    /\ ppc' = "recv"
    /\ UNCHANGED <<tickerVars, discVars, recCh, errCh,
                   polls>>
    /\ UNCHANGED verVars

\* ---------------------------------------------------------------- readers
ReaderIds == 1..Len(readers)

\* processShard of reader rd returned nil because of why, and the goroutine
\* is over.  The token is a local of processShard and is gone with it.
Exited(rd, why) ==
    [rd EXCEPT !.pc = "exited", !.cause = why, !.next = FALSE]

\* processShard of reader rd returned an error.
Failed(rd) == [rd EXCEPT !.pc = "err", !.cause = "error", !.next = FALSE]

\* Variant of AfterPage that polls again whatever the token.
AfterPage_PollAgain(rd) == [rd EXCEPT !.pc = "get"]

\* Reader rd once every record of its page is on recCh: the loop test
\* `for next != nil` either polls again or ends processShard with nil.
AfterPage(rd) ==
    IF rd.next THEN [rd EXCEPT !.pc = "get"] ELSE Exited(rd, "closed")

\* Slots held after a reader became rd: the goroutine's final <-limit runs
\* as soon as processShard has returned nil.
SlotsAfter(rd) == IF rd.pc = "exited" THEN limit - 1 ELSE limit

\* GetShardIterator returns a token.
ReaderIterOk(r) ==
    /\ readers[r].pc = "iter"
    /\ readers' = [readers EXCEPT ![r] = [@ EXCEPT !.pc = "get", !.next = TRUE]]
    /\ UNCHANGED <<tickerVars, discVars, dispVars, limit, recCh, errCh,
                   delivered,
                   polls>>
    /\ UNCHANGED verVars

\* GetShardIterator returns a nil token: processShard returns nil.
ReaderIterNil(r) ==
    /\ readers[r].pc = "iter"
    /\ readers' = [readers EXCEPT ![r] = Exited(@, "niliter")]
    /\ limit' = limit - 1
    /\ UNCHANGED <<tickerVars, discVars, dispVars, recCh, errCh, delivered,
                   polls>>
    /\ UNCHANGED verVars

\* GetShardIterator fails: processShard returns the error.
ReaderIterFail(r) ==
    /\ readers[r].pc = "iter"
    /\ readers' = [readers EXCEPT ![r] = Failed(@)]
    /\ UNCHANGED <<tickerVars, discVars, dispVars, limit, recCh, errCh,
                   delivered,
                   polls>>
    /\ UNCHANGED verVars

\* GetRecords succeeds with n records and a next token (nxt) or none.
\* Records of one reader are numbered in the order the provider returns them.
ReaderGetRecordsOk(r, n, nxt) ==
    /\ readers[r].pc = "get"
    /\ readers[r].given + n <= MaxRecords
    /\ LET rd == readers[r]
           got == [rd EXCEPT !.page = [i \in 1..n |-> rd.given + i],
                             !.given = rd.given + n,
                             !.next = nxt]
           new == IF n = 0 THEN AfterPage(got) ELSE [got EXCEPT !.pc = "send"]
       IN /\ readers' = [readers EXCEPT ![r] = new]
          /\ limit' = SlotsAfter(new)
    /\ UNCHANGED <<tickerVars, discVars, dispVars, recCh, errCh, delivered>>
    /\ polls' = 1 - polls
    /\ UNCHANGED verVars

\* Variant of ReaderGetRecordsTrimmed without the error-code test: the
\* error is returned like any other.
ReaderGetRecordsTrimmed_AsError(r) ==
    /\ readers[r].pc = "get"
    /\ readers' = [readers EXCEPT ![r] =
                     [@ EXCEPT !.pc = "err", !.cause = "trimmed", !.next = FALSE]]
    /\ UNCHANGED <<tickerVars, discVars, dispVars, limit, recCh, errCh,
                   delivered>>
    /\ polls' = 1 - polls
    /\ UNCHANGED verVars

\* GetRecords fails with TrimmedDataAccessException: processShard returns nil.
ReaderGetRecordsTrimmed(r) ==
    /\ readers[r].pc = "get"
    /\ readers' = [readers EXCEPT ![r] =
                     Exited(@, "trimmed")]
    /\ limit' = limit - 1
    /\ UNCHANGED <<tickerVars, discVars, dispVars, recCh, errCh, delivered>>
    /\ polls' = 1 - polls
    /\ UNCHANGED verVars

\* GetRecords fails with any other error: processShard returns the error.
ReaderGetRecordsFail(r) ==
    /\ readers[r].pc = "get"
    /\ readers' = [readers EXCEPT ![r] = Failed(@)]
    /\ UNCHANGED <<tickerVars, discVars, dispVars, limit, recCh, errCh,
                   delivered>>
    /\ polls' = 1 - polls
    /\ UNCHANGED verVars

\* Record k of reader r as it travels on recCh.  The provider's data: an
\* insert or a modification, by turns, with an event id and a partition key
\* of its own.
Rec(r, k) ==
    [rd |-> r, seq |-> k,
     name |-> IF k % 2 = 1 THEN "INSERT" ELSE "MODIFY",
     id |-> 10 * r + k, pk |-> 10 * r + k]

\* Variant of ReaderSendRecord that walks the page from its end.
ReaderSendRecord_Backwards(r) ==
    /\ readers[r].pc = "send"
    /\ Len(recCh) < ChanCap
    /\ LET rd == readers[r]
           k == Len(rd.page)
           sent == [rd EXCEPT !.page = SubSeq(rd.page, 1, k - 1)]
           new == IF sent.page = <<>> THEN AfterPage(sent) ELSE sent
       IN /\ recCh' = Append(recCh, Rec(r, rd.page[k]))
          /\ readers' = [readers EXCEPT ![r] = new]
          /\ limit' = SlotsAfter(new)
    /\ UNCHANGED <<tickerVars, discVars, dispVars, errCh, delivered,
                   polls>>
    /\ UNCHANGED verVars

\* Variant of ReaderSendRecord with a non-blocking send: a record that finds
\* recCh full is discarded.
ReaderSendRecord_DropWhenFull(r) ==
    /\ readers[r].pc = "send"
    /\ LET rd == readers[r]
           sent == [rd EXCEPT !.page = Tail(rd.page)]
           new == IF sent.page = <<>> THEN AfterPage(sent) ELSE sent
       IN /\ recCh' = IF Len(recCh) < ChanCap
                         THEN Append(recCh, Rec(r, Head(rd.page)))
                         ELSE recCh
          /\ readers' = [readers EXCEPT ![r] = new]
          /\ limit' = SlotsAfter(new)
    /\ UNCHANGED <<tickerVars, discVars, dispVars, errCh, delivered,
                   polls>>
    /\ UNCHANGED verVars

\* recCh <- &rec for the next record of the page (blocks while recCh is full).
ReaderSendRecord(r) ==
    /\ readers[r].pc = "send"
    /\ Len(recCh) < ChanCap
    /\ LET rd == readers[r]
           sent == [rd EXCEPT !.page = Tail(rd.page)]
           new == IF sent.page = <<>> THEN AfterPage(sent) ELSE sent
       IN /\ recCh' = Append(recCh, Rec(r, Head(rd.page)))
          /\ readers' = [readers EXCEPT ![r] = new]
          /\ limit' = SlotsAfter(new)
    /\ UNCHANGED <<tickerVars, discVars, dispVars, errCh, delivered,
                   polls>>
    /\ UNCHANGED verVars

\* Variant of ReaderPublishErr that forgets the shard so that a later
\* refresh reads it again.
ReaderPublishErr_Forget(r) ==
    /\ readers[r].pc = "err"
    /\ Len(errCh) < ChanCap
    /\ errCh' = Append(errCh, [from |-> r, kind |-> "provider"])
    /\ readers' = [readers EXCEPT ![r] =
                     [@ EXCEPT !.errs = @ + 1, !.pc = "exited"]]
    /\ limit' = limit - 1
    /\ allShards' = allShards \ {readers[r].shard}
    /\ UNCHANGED <<tickerVars, dpc, dArn, dIds, dErr, lock, shardsCh, enq,
                   dispVars, recCh, delivered,
                   polls>>
    /\ UNCHANGED verVars

\* Variant of ReaderPublishErr without the final <-limit.
ReaderPublishErr_KeepSlot(r) ==
    /\ readers[r].pc = "err"
    /\ Len(errCh) < ChanCap
    /\ errCh' = Append(errCh, [from |-> r, kind |-> "provider"])
    /\ readers' = [readers EXCEPT ![r] =
                     [@ EXCEPT !.errs = @ + 1, !.pc = "exited"]]
    /\ UNCHANGED <<tickerVars, discVars, dispVars, limit, recCh, delivered,
                   polls>>
    /\ UNCHANGED verVars

\* errCh <- err (blocks while errCh is full), then <-limit.
ReaderPublishErr(r) ==
    /\ readers[r].pc = "err"
    /\ Len(errCh) < ChanCap
    /\ errCh' = Append(errCh, [from |-> r, kind |-> "provider"])
    /\ readers' = [readers EXCEPT ![r] =
                     [@ EXCEPT !.errs = @ + 1, !.pc = "exited"]]
    /\ limit' = limit - 1
    /\ UNCHANGED <<tickerVars, discVars, dispVars, recCh, delivered,
                   polls>>
    /\ UNCHANGED verVars

\* -------------------------------------------------------------- consumer
\* The receive of a record done otherwise: the record is counted when
\* counted, its event id recorded when recorded, and it is sampled when
\* sampled.
ConsumeHow(counted, recorded, sampled) ==
    /\ cpc = "run"
    /\ recCh # <<>>
    /\ LET m == Head(recCh) IN
         /\ delivered' = IF m.rd = 0 THEN delivered
                          ELSE [delivered EXCEPT ![m.rd] = Append(@, m.seq)]
         /\ total' = IF counted THEN total + 1 ELSE total
         /\ insert' = IF m.name = "INSERT" THEN insert + 1 ELSE insert
         /\ modify' = IF m.name = "MODIFY" THEN modify + 1 ELSE modify
         /\ eventIDs' = IF recorded THEN eventIDs \cup {m.id} ELSE eventIDs
         /\ repeated' = (repeated \/ (m.name # "REMOVE" /\ m.id \in eventIDs))
         /\ validationBuffer' =
              IF sampled THEN Append(validationBuffer, m.pk)
                         ELSE validationBuffer
    /\ recCh' = Tail(recCh)
    /\ UNCHANGED <<tickerVars, discVars, dispVars, limit, readers, errCh,
                   polls, sampleRate, cpc, vCount, vSuccess, vFailed,
                   validationCh, workers, fed, flushes, cancelVars,
                   clockVars, handedAt, policyVars, keyVars,
                   single, memVars>>

\* Variant of ConsumeRecord that counts a Remove in the total.
ConsumeRecord_CountRemoves ==
    ConsumeHow(TRUE,
               Head(recCh).name # "REMOVE",
               /\ Head(recCh).name # "REMOVE"
               /\ (total + 1) % sampleRate = 0
               /\ Head(recCh).pk # 0)

\* Variant of ConsumeRecord that records the event id of a Remove.
ConsumeRecord_RecordRemoveIds ==
    ConsumeHow(Head(recCh).name # "REMOVE",
               TRUE,
               /\ Head(recCh).name # "REMOVE"
               /\ (total + 1) % sampleRate = 0
               /\ Head(recCh).pk # 0)

\* Variant of ConsumeRecord that puts a Remove through the sampling test.
ConsumeRecord_SampleRemoves ==
    ConsumeHow(Head(recCh).name # "REMOVE",
               Head(recCh).name # "REMOVE",
               /\ total' % sampleRate = 0
               /\ Head(recCh).pk # 0)

\* Variant of ConsumeRecord that tests the total before counting the record.
ConsumeRecord_SampleBeforeCount ==
    ConsumeHow(Head(recCh).name # "REMOVE",
               Head(recCh).name # "REMOVE",
               /\ Head(recCh).name # "REMOVE"
               /\ total % sampleRate = 0
               /\ Head(recCh).pk # 0)

\* case rec := <-recCh : a Remove is skipped; any other record is counted,
\* its event id recorded, and it is sampled when the new total is a multiple
\* of the sample rate and its partition key is not empty (pk 0: no string
\* value under the configured key name).
ConsumeRecord ==
    /\ cpc = "run"
    /\ recCh # <<>>
    /\ LET m == Head(recCh) IN
         /\ delivered' = IF m.rd = 0 THEN delivered
                          ELSE [delivered EXCEPT ![m.rd] = Append(@, m.seq)]
         /\ IF m.name = "REMOVE"
              THEN UNCHANGED <<total, insert, modify, eventIDs, repeated,
                               validationBuffer>>
              ELSE /\ total' = total + 1
                   /\ insert' = IF m.name = "INSERT" THEN insert + 1 ELSE insert
                   /\ modify' = IF m.name = "MODIFY" THEN modify + 1 ELSE modify
                   /\ eventIDs' = eventIDs \cup {m.id}
                   /\ repeated' = (repeated \/ m.id \in eventIDs)
                   /\ validationBuffer' =
                        IF (total + 1) % sampleRate = 0 /\ m.pk # 0
                          THEN Append(validationBuffer, m.pk)
                          ELSE validationBuffer
    /\ recCh' = Tail(recCh)
    /\ UNCHANGED <<tickerVars, discVars, dispVars, limit, readers, errCh,
                   polls, sampleRate, cpc, vCount, vSuccess, vFailed,
                   validationCh, workers, fed, flushes, cancelVars,
                   clockVars, handedAt, policyVars, keyVars,
                   single, memVars>>

\* Variant of ConsumeError that leaves the select loop.
ConsumeError_Stops ==
    /\ cpc = "run"
    /\ errCh # <<>>
    /\ errCh' = Tail(errCh)
    /\ cpc' = "returned"
    /\ UNCHANGED <<tickerVars, discVars, dispVars, limit, readers, recCh,
                   delivered, polls, sampleRate, statsVars, repeated,
                   validationBuffer, validationCh, workers, fed, flushes,
                   cancelVars, clockVars, handedAt, policyVars, keyVars,
                   single, memVars>>

\* case err := <-errCh
ConsumeError ==
    /\ cpc = "run"
    /\ errCh # <<>>
    /\ errCh' = Tail(errCh)
    /\ UNCHANGED <<tickerVars, discVars, dispVars, limit, readers, recCh,
                   delivered,
                   polls>>
    /\ UNCHANGED verVars

\* The subscriber, seen from the consumer: some goroutine puts an error on
\* errCh (errCh <- err).
SubscriberFail ==
    /\ Len(errCh) < ChanCap
    /\ errCh' = Append(errCh, [from |-> 0, kind |-> "provider"])
    /\ UNCHANGED <<tickerVars, discVars, dispVars, limit, readers, recCh,
                   delivered, polls>>
    /\ UNCHANGED verVars

\* The subscriber, seen from the consumer: some reader sends a record with
\* content c (recCh <- &rec), at most n records in all.
SubscriberSend(c, n) ==
    /\ fed < n
    /\ Len(recCh) < ChanCap
    /\ recCh' = Append(recCh, [rd |-> 0, seq |-> 0, name |-> c.name,
                                id |-> c.id, pk |-> c.pk])
    /\ fed' = fed + 1
    /\ UNCHANGED <<tickerVars, discVars, dispVars, limit, readers, errCh,
                   delivered, polls, sampleRate, cpc, statsVars, repeated,
                   validationBuffer, validationCh, workers, flushes,
                   cancelVars, clockVars, handedAt, policyVars, keyVars,
                   single, memVars>>

\* Variant of OneShotWorker that skips the replication wait.
OneShotWorker_NoWait(b) ==
    [IdleWorker EXCEPT !.pc = "load", !.batch = b, !.i = 1]

\* A worker as it starts on batch b: processValidationBatch begins with the
\* replication wait.
OneShotWorker(b) ==
    [IdleWorker EXCEPT !.pc = "load", !.batch = b, !.i = 1,
                       !.sleep = ReplicationWait]

\* The hand-over times once batch b is handed over at time t.
HandedOver(b, t) ==
    [k \in DOMAIN handedAt \cup Range(b) |->
        IF k \in Range(b) THEN t ELSE handedAt[k]]

\* Variant of ProcessValidationBuffer without the test for an empty buffer.
ProcessValidationBuffer_NoEmptyTest ==
    /\ flushes' = 1 - flushes
    /\ validationBuffer' = <<>>
    /\ handedAt' = HandedOver(validationBuffer, now)
    /\ IF Len(validationCh) < ValidationChCap
         THEN /\ validationCh' = Append(validationCh, validationBuffer)
              /\ UNCHANGED workers
         ELSE /\ workers' = Append(workers, OneShotWorker(validationBuffer))
              /\ UNCHANGED validationCh

\* Variant of ProcessValidationBuffer that discards the batch when the
\* channel is full.
ProcessValidationBuffer_DropWhenFull ==
    /\ flushes' = 1 - flushes
    /\ IF validationBuffer = <<>>
         THEN UNCHANGED <<validationBuffer, validationCh, workers, handedAt>>
         ELSE /\ validationBuffer' = <<>>
              /\ handedAt' = HandedOver(validationBuffer, now)
              /\ validationCh' = IF Len(validationCh) < ValidationChCap
                                   THEN Append(validationCh, validationBuffer)
                                   ELSE validationCh
              /\ UNCHANGED workers

\* Variant of ProcessValidationBuffer with a plain channel send: the flush
\* waits while validationCh is full.
ProcessValidationBuffer_BlockWhenFull ==
    /\ flushes' = 1 - flushes
    /\ IF validationBuffer = <<>>
         THEN UNCHANGED <<validationBuffer, validationCh, workers, handedAt>>
         ELSE /\ Len(validationCh) < ValidationChCap
              /\ validationBuffer' = <<>>
              /\ handedAt' = HandedOver(validationBuffer, now)
              /\ validationCh' = Append(validationCh, validationBuffer)
              /\ UNCHANGED workers

\* processValidationBuffer: nothing on an empty buffer; otherwise the
\* buffer's copy goes to validationCh, or to a new one-shot worker when the
\* channel is full, and the buffer is cleared.
ProcessValidationBuffer ==
    /\ flushes' = 1 - flushes
    /\ IF validationBuffer = <<>>
         THEN UNCHANGED <<validationBuffer, validationCh, workers, handedAt>>
         ELSE /\ validationBuffer' = <<>>
              /\ handedAt' = HandedOver(validationBuffer, now)
              /\ IF Len(validationCh) < ValidationChCap
                   THEN /\ validationCh' = Append(validationCh, validationBuffer)
                        /\ UNCHANGED workers
                   ELSE /\ workers' = Append(workers, OneShotWorker(validationBuffer))
                        /\ UNCHANGED validationCh

\* case <-validationTicker.C
FlushTick ==
    /\ cpc = "run"
    /\ ProcessValidationBuffer
    /\ UNCHANGED <<tickerVars, discVars, dispVars, limit, readers, recCh,
                   errCh, delivered, polls, sampleRate, cpc, statsVars,
                   repeated, fed, cancelVars, clockVars, policyVars, keyVars,
                   single, memVars>>

\* The interrupt arrives: signal.Notify puts it on c, and main's signal
\* goroutine cancels ctx.
Cancel ==
    /\ ~cancelled
    /\ cancelled' = TRUE
    /\ UNCHANGED <<tickerVars, discVars, dispVars, limit, readers, recCh,
                   errCh, delivered, polls, sampleRate, cpc, statsVars,
                   repeated, validationBuffer, validationCh, workers, fed,
                   flushes, finalPrints, clockVars, handedAt, policyVars,
                   keyVars, single, memVars>>

\* Variant of Shutdown that goes back to the select loop.
Shutdown_KeepsRunning ==
    /\ cpc = "run"
    /\ cancelled
    /\ ProcessValidationBuffer
    /\ finalPrints' = finalPrints + 1
    /\ UNCHANGED <<tickerVars, discVars, dispVars, limit, readers, recCh,
                   errCh, delivered, polls, sampleRate, cpc, statsVars,
                   repeated, fed, cancelled, clockVars, policyVars, keyVars,
                   single, memVars>>

\* case <-c / case <-ctx.Done() : flush, print the statistics, return.
Shutdown ==
    /\ cpc = "run"
    /\ cancelled
    /\ ProcessValidationBuffer
    /\ finalPrints' = finalPrints + 1
    /\ cpc' = "returned"
    /\ UNCHANGED <<tickerVars, discVars, dispVars, limit, readers, recCh,
                   errCh, delivered, polls, sampleRate, statsVars, repeated,
                   fed, cancelled, clockVars, policyVars, keyVars,
                   single, memVars>>

\* ---------------------------------------------------- validation workers
WorkerIds == 1..Len(workers)

workerFrame == <<tickerVars, discVars, dispVars, limit, readers, recCh,
                 errCh, delivered, polls, sampleRate, cpc, total, insert,
                 modify, eventIDs, repeated, validationBuffer, fed, flushes,
                 cancelVars, now, visibleFrom, handedAt, policyVars, keyVars,
                   single, memVars>>

\* for batch := range validationCh : the channel worker takes a batch and
\* sits out the replication wait.
WorkerTake ==
    /\ workers[1].pc = "idle"
    /\ validationCh # <<>>
    /\ workers' = [workers EXCEPT ![1] = OneShotWorker(Head(validationCh))]
    /\ validationCh' = Tail(validationCh)
    /\ UNCHANGED <<workerFrame, vCount, vSuccess, vFailed>>

\* time.Sleep returns: the worker's wait is over.
WorkerSleepOver(w) ==
    /\ workers[w].sleep > 0
    /\ workers' = [workers EXCEPT ![w] = [@ EXCEPT !.sleep = 0]]
    /\ UNCHANGED <<workerFrame, validationCh, vCount, vSuccess, vFailed>>

\* stats.ValidationCount++ : the read.
WorkerLoadCount(w) ==
    /\ workers[w].pc = "load"
    /\ workers[w].sleep = 0
    /\ workers' = [workers EXCEPT ![w] = [@ EXCEPT !.pc = "store", !.tmp = vCount]]
    /\ UNCHANGED <<workerFrame, validationCh, vCount, vSuccess, vFailed>>

\* stats.ValidationCount++ : the write.
WorkerStoreCount(w) ==
    /\ workers[w].pc = "store"
    /\ vCount' = workers[w].tmp + 1
    /\ workers' = [workers EXCEPT ![w] =
                      [@ EXCEPT !.pc = "look1", !.tmp = 0, !.looks = 0,
                                !.hit = FALSE, !.erred = FALSE]]
    /\ UNCHANGED <<workerFrame, validationCh, vSuccess, vFailed>>

\* What verifyInTable returns on GetItem's outcome: true only when the call
\* succeeded and returned an item.
Exists(outcome) == outcome = "found"

\* Variant of WorkerLookup1 that goes on to the retry whatever the first
\* lookup returned.
WorkerLookup1_AlwaysRetry(w, outcome) ==
    /\ workers[w].pc = "look1"
    /\ workers' = [workers EXCEPT ![w] =
                      [@ EXCEPT !.looks = 1, !.hit = Exists(outcome),
                                !.erred = (outcome = "error"),
                                !.pc = "look2", !.sleep = RetryWait]]
    /\ UNCHANGED <<workerFrame, validationCh, vCount, vSuccess, vFailed>>

\* Variant of WorkerLookup1 that does not retry after a provider error.
WorkerLookup1_NoRetryOnError(w, outcome) ==
    /\ workers[w].pc = "look1"
    /\ workers' = [workers EXCEPT ![w] =
                      [@ EXCEPT !.looks = 1, !.hit = Exists(outcome),
                                !.erred = (outcome = "error"),
                                !.pc = IF outcome = "missing" THEN "look2"
                                       ELSE "vload",
                                !.sleep = IF outcome = "missing" THEN RetryWait
                                          ELSE 0]]
    /\ UNCHANGED <<workerFrame, validationCh, vCount, vSuccess, vFailed>>

\* First attempt: success := verifyInTable(...).
WorkerLookup1(w, outcome) ==
    /\ workers[w].pc = "look1"
    /\ workers' = [workers EXCEPT ![w] =
                      [@ EXCEPT !.looks = 1, !.hit = Exists(outcome),
                                !.erred = (outcome = "error"),
                                !.pc = IF Exists(outcome) THEN "vload" ELSE "look2",
                                !.sleep = IF Exists(outcome) THEN 0 ELSE RetryWait]]
    /\ UNCHANGED <<workerFrame, validationCh, vCount, vSuccess, vFailed>>

\* if !success: wait two seconds, success = verifyInTable(...).
WorkerLookup2(w, outcome) ==
    /\ workers[w].pc = "look2"
    /\ workers[w].sleep = 0
    /\ workers' = [workers EXCEPT ![w] =
                      [@ EXCEPT !.looks = 2, !.hit = Exists(outcome),
                                !.erred = (workers[w].erred \/ outcome = "error"),
                                !.pc = "vload"]]
    /\ UNCHANGED <<workerFrame, validationCh, vCount, vSuccess, vFailed>>

\* stats.ValidationSuccess++ or stats.ValidationFailed++ : the read.
WorkerLoadVerdict(w) ==
    /\ workers[w].pc = "vload"
    /\ workers' = [workers EXCEPT ![w] =
                      [@ EXCEPT !.pc = "vstore",
                                !.tmp = IF workers[w].hit THEN vSuccess
                                         ELSE vFailed]]
    /\ UNCHANGED <<workerFrame, validationCh, vCount, vSuccess, vFailed>>

\* Worker wk once the verdict of its record is written: on to the next
\* record of the batch, or the batch is over (the channel worker goes back
\* to validationCh, a one-shot worker returns).
AfterRecord(w, wk) ==
    IF wk.i < Len(wk.batch)
      THEN [wk EXCEPT !.pc = "load", !.i = @ + 1, !.tmp = 0, !.looks = 0,
                      !.hit = FALSE, !.erred = FALSE]
      ELSE IF w = 1 THEN IdleWorker ELSE [IdleWorker EXCEPT !.pc = "done"]

\* stats.ValidationSuccess++ or stats.ValidationFailed++ : the write.
WorkerStoreVerdict(w) ==
    /\ workers[w].pc = "vstore"
    /\ vSuccess' = IF workers[w].hit THEN workers[w].tmp + 1 ELSE vSuccess
    /\ vFailed' = IF workers[w].hit THEN vFailed ELSE workers[w].tmp + 1
    /\ workers' = [workers EXCEPT ![w] = AfterRecord(w, @)]
    /\ UNCHANGED <<workerFrame, validationCh, vCount>>

\* --------------------------------------------------------- specifications
Ticker == TickerFire \/ TickerSend

Dispatcher == DispWake \/ DispRecv \/ DispSpawn

Consumer == ConsumeRecord \/ ConsumeError

\* General specification: every answer of DescribeTable and DescribeStream,
\* listings in any order with repeats, stream rotation, periodic refresh;
\* readers close or fail, on pages without records.
Next ==
    \/ Ticker
    \/ DiscRecvSignal
    \/ \E a \in Arns : DiscResolveOk(a)
    \/ \E e \in {"provider", "emptyarn"} : DiscResolveFail(e)
    \/ \E ids \in Listings : DiscListOk(ids)
    \/ DiscListFail
    \/ DiscPublishErr
    \/ DiscVisitShard
    \/ DiscEnqueue
    \/ Dispatcher
    \/ \E r \in ReaderIds : ReaderIterOk(r)
    \/ \E r \in ReaderIds : ReaderIterFail(r)
    \/ \E r \in ReaderIds, nxt \in BOOLEAN : ReaderGetRecordsOk(r, 0, nxt)
    \/ \E r \in ReaderIds : ReaderGetRecordsFail(r)
    \/ \E r \in ReaderIds : ReaderPublishErr(r)
    \/ ConsumeError

Spec == Init /\ [][Next]_vars

\* Reading specification: the first refresh of one stream; readers meet
\* every outcome of GetShardIterator and GetRecords, with pages of up to
\* MaxRecords records.
NextRead ==
    \/ DiscRecvSignal
    \/ DiscResolveOk(1)
    \/ \E ids \in PrefixListings(NumReadShards) : DiscListOk(ids)
    \/ DiscVisitShard
    \/ DiscEnqueue
    \/ Dispatcher
    \/ \E r \in ReaderIds : ReaderIterOk(r)
    \/ \E r \in ReaderIds : ReaderIterNil(r)
    \/ \E r \in ReaderIds : ReaderIterFail(r)
    \/ \E r \in ReaderIds, n \in 0..MaxRecords, nxt \in BOOLEAN :
         ReaderGetRecordsOk(r, n, nxt)
    \/ \E r \in ReaderIds : ReaderGetRecordsTrimmed(r)
    \/ \E r \in ReaderIds : ReaderGetRecordsFail(r)
    \/ \E r \in ReaderIds : ReaderSendRecord(r)
    \/ \E r \in ReaderIds : ReaderPublishErr(r)
    \/ Consumer

SpecRead == Init /\ [][NextRead]_vars

\* Wide specification: more shards than semaphore slots, no provider error.
ReaderStepWide(r) ==
    \/ ReaderIterOk(r)
    \/ ReaderGetRecordsOk(r, 0, TRUE)
    \/ ReaderGetRecordsOk(r, 0, FALSE)

\* Listings of the wide specifications: one shard, that shard with two
\* children, and every shard.
WideListings == {[i \in 1..k |-> i] : k \in {1, 3, NumWideShards}}

Discovery ==
    \/ DiscRecvSignal
    \/ DiscResolveOk(1)
    \/ \E ids \in WideListings : DiscListOk(ids)
    \/ DiscVisitShard
    \/ DiscEnqueue

NextWide ==
    \/ Ticker
    \/ Discovery
    \/ Dispatcher
    \/ \E r \in ReaderIds : ReaderStepWide(r)

SpecWide == Init /\ [][NextWide]_vars

\* Fair scheduling: every goroutine that can take a step eventually takes
\* one, and every provider call returns.  Which answer GetRecords returns
\* is the provider's choice: a reader of an open shard may poll for ever,
\* each poll returning no record and a token.
Fairness ==
    /\ WF_vars(TickerSend)
    /\ WF_vars(Discovery)
    /\ WF_vars(Dispatcher)
    /\ \A r \in 1..NumWideShards : WF_vars(r \in ReaderIds /\ ReaderStepWide(r))

SpecWideFair == Init /\ [][NextWide]_vars /\ Fairness


\* Outcomes of a GetItem call.
Outcomes == {"found", "missing", "error"}

\* Record contents of the sampling specification: the three event names,
\* two event ids; record number k has no partition key (0) or the key k.
SampleContents ==
    [name : {"INSERT", "MODIFY", "REMOVE"}, id : {1, 2}, pk : {0, fed + 1}]

\* Configured sample rates: none (the default applies), every record, every
\* third record.
SampleRates == {0, 1, 3}

InitSample == InitSubscriber /\ \E n \in SampleRates : InitVerification(n)

\* Sampling specification: the consumer counts and samples the records it
\* is sent.
NextSample ==
    \/ \E c \in SampleContents : SubscriberSend(c, MaxSampleFeed)
    \/ ConsumeRecord

SpecSample == InitSample /\ [][NextSample]_vars

\* Record contents of the validation specification; record number k has
\* partition key k.
VerifyContents ==
    [name : {"INSERT", "REMOVE"}, id : {1}, pk : {fed + 1}]

InitVerify == InitSubscriber /\ \E n \in {1, 2} : InitVerification(n)

Workers ==
    \/ WorkerTake
    \/ \E w \in WorkerIds : WorkerSleepOver(w)
    \/ \E w \in WorkerIds : WorkerLoadCount(w)
    \/ \E w \in WorkerIds : WorkerStoreCount(w)
    \/ \E w \in WorkerIds, o \in Outcomes : WorkerLookup1(w, o)
    \/ \E w \in WorkerIds, o \in Outcomes : WorkerLookup2(w, o)
    \/ \E w \in WorkerIds : WorkerLoadVerdict(w)
    \/ \E w \in WorkerIds : WorkerStoreVerdict(w)

\* Validation specification: sampling, errors, flushes, shutdown and the
\* channel worker with every lookup outcome.
NextVerify ==
    \/ \E c \in VerifyContents : SubscriberSend(c, MaxVerifyFeed)
    \/ SubscriberFail
    \/ ConsumeRecord
    \/ ConsumeError
    \/ FlushTick
    \/ Cancel
    \/ Shutdown
    \/ Workers

SpecVerify == InitVerify /\ [][NextVerify]_vars

InitOverflow == InitSubscriber /\ InitVerification(1)

\* Overflow specification: every record is an insert and is sampled, every
\* lookup finds its item; the consumer can flush more batches than
\* validationCh holds.
NextOverflow ==
    \/ SubscriberSend([name |-> "INSERT", id |-> 1, pk |-> fed + 1],
                      MaxOverflowFeed)
    \/ ConsumeRecord
    \/ FlushTick
    \/ WorkerTake
    \/ \E w \in WorkerIds : WorkerSleepOver(w)
    \/ \E w \in WorkerIds : WorkerLoadCount(w)
    \/ \E w \in WorkerIds : WorkerStoreCount(w)
    \/ \E w \in WorkerIds : WorkerLookup1(w, "found")
    \/ \E w \in WorkerIds : WorkerLoadVerdict(w)
    \/ \E w \in WorkerIds : WorkerStoreVerdict(w)

SpecOverflow == InitOverflow /\ [][NextOverflow]_vars

\* One second passes: every sleeping worker has a second less to sleep.
Tick ==
    /\ now < MaxClock
    /\ now' = now + 1
    /\ workers' = [w \in WorkerIds |->
                     [workers[w] EXCEPT !.sleep = IF @ > 0 THEN @ - 1 ELSE 0]]
    /\ UNCHANGED <<tickerVars, discVars, dispVars, limit, readers, recCh,
                   errCh, delivered, polls, sampleRate, cpc, statsVars,
                   repeated, validationBuffer, validationCh, fed, flushes,
                   cancelVars, visibleFrom, handedAt, policyVars, keyVars,
                   single, memVars>>

\* The partition key of the record worker w is at (0: it holds no record).
CurrentKey(w) ==
    IF workers[w].i \in 1..Len(workers[w].batch)
      THEN workers[w].batch[workers[w].i]
      ELSE 0

\* The item of key k is visible on the verified side.
Visible(k) == k \in DOMAIN visibleFrom /\ now >= visibleFrom[k]

\* What GetItem can answer for key k now: the item when it is visible, no
\* item when it is not, or a provider error.
GetItemOutcomes(k) == {IF Visible(k) THEN "found" ELSE "missing", "error"}

\* Keys of the timed specification: a first and a later record of a batch.
TimedKeys == {1, 2}

\* Every item becomes visible at some second up to MaxClock, or later.
InitTimed ==
    /\ InitSubscriber
    /\ InitConsumer(1)
    /\ \E vf \in [TimedKeys -> 0..(MaxClock + 1)] : InitClock(vf)
    /\ InitPolicy("LATEST")
    /\ InitMemory
    /\ InitKeys(PlainConfig)
    /\ InitSingle

\* Timed specification: time passes in seconds, the workers sleep as long
\* as time.Sleep makes them, and GetItem answers by the item's visibility.
NextTimed ==
    \/ SubscriberSend([name |-> "INSERT", id |-> 1, pk |-> fed + 1],
                      Cardinality(TimedKeys))
    \/ ConsumeRecord
    \/ FlushTick
    \/ Tick
    \/ WorkerTake
    \/ \E w \in WorkerIds : WorkerLoadCount(w)
    \/ \E w \in WorkerIds : WorkerStoreCount(w)
    \/ \E w \in WorkerIds :
         \E o \in GetItemOutcomes(CurrentKey(w)) : WorkerLookup1(w, o)
    \/ \E w \in WorkerIds :
         \E o \in GetItemOutcomes(CurrentKey(w)) : WorkerLookup2(w, o)
    \/ \E w \in WorkerIds : WorkerLoadVerdict(w)
    \/ \E w \in WorkerIds : WorkerStoreVerdict(w)

SpecTimed == InitTimed /\ [][NextTimed]_vars

\* ------------------------------------------------- the buffer as a slice
\* What the slice-level actions leave alone.
memFrame == <<tickerVars, discVars, dispVars, limit, readers, recCh, errCh,
              delivered, polls, sampleRate, cpc, statsVars, repeated,
              validationBuffer, validationCh, workers, fed, flushes,
              cancelVars, clockVars, handedAt, policyVars, keyVars,
              single>>

\* The elements of slice ref, read through its array.
Contents(ref) == SubSeq(heap[ref.arr], 1, ref.len)

\* A new array of capacity n holding the elements of s, zero after them.
NewArray(s, n) == [i \in 1..n |-> IF i <= Len(s) THEN s[i] ELSE 0]

\* Partition keys of the slice specification.
CopyKeys == {1, 2}

\* validationBuffer = append(validationBuffer, rec) : within the capacity
\* the element is written into the buffer's array; beyond it append moves
\* the elements to a new array of twice the capacity (of capacity 1 from
\* capacity 0).
MemAppend(pk) ==
    /\ cpc = "run"
    /\ LET cap == Len(heap[bufRef.arr]) IN
         IF bufRef.len < cap
           THEN /\ heap' = [heap EXCEPT ![bufRef.arr][bufRef.len + 1] = pk]
                /\ bufRef' = [bufRef EXCEPT !.len = @ + 1]
           ELSE /\ Len(heap) < MaxHeap
                /\ heap' = Append(heap,
                                  NewArray(Append(Contents(bufRef), pk),
                                           IF cap = 0 THEN 1 ELSE 2 * cap))
                /\ bufRef' = [arr |-> Len(heap) + 1, len |-> bufRef.len + 1]
    /\ UNCHANGED <<batchRefs, memFrame>>

\* The batches waiting on validationCh: those no worker holds.
Waiting == {i \in 1..Len(batchRefs) : batchRefs[i].by = "none"}

\* Who gets a batch flushed now: validationCh when it has room, a one-shot
\* worker when it is full.
Receiver ==
    IF Cardinality(Waiting) < ValidationChCap THEN "none" ELSE "oneshot"

\* Variant of MemFlush without the copy: the batch is the buffer's slice.
MemFlush_NoCopy ==
    /\ cpc = "run"
    /\ bufRef.len > 0
    /\ batchRefs' = Append(batchRefs,
                           [arr |-> bufRef.arr, len |-> bufRef.len,
                            snap |-> Contents(bufRef), by |-> Receiver])
    /\ bufRef' = [bufRef EXCEPT !.len = 0]
    /\ UNCHANGED <<heap, memFrame>>

\* processValidationBuffer on a non-empty buffer: batch := make(len);
\* copy(batch, validationBuffer); validationBuffer = validationBuffer[:0]
\* (the same array, length 0); the batch goes to validationCh or to a
\* one-shot worker.  snap: the buffer's elements at this moment.
MemFlush ==
    /\ cpc = "run"
    /\ bufRef.len > 0
    /\ Len(heap) < MaxHeap
    /\ heap' = Append(heap, NewArray(Contents(bufRef), bufRef.len))
    /\ batchRefs' = Append(batchRefs,
                           [arr |-> Len(heap) + 1, len |-> bufRef.len,
                            snap |-> Contents(bufRef), by |-> Receiver])
    /\ bufRef' = [bufRef EXCEPT !.len = 0]
    /\ UNCHANGED memFrame

\* for batch := range validationCh : the channel worker, holding no batch,
\* takes the oldest waiting one.
MemWorkerTake ==
    /\ Waiting # {}
    /\ \A i \in 1..Len(batchRefs) : batchRefs[i].by # "channel"
    /\ LET i == CHOOSE j \in Waiting : \A k \in Waiting : j <= k IN
         batchRefs' = [batchRefs EXCEPT ![i].by = "channel"]
    /\ UNCHANGED <<heap, bufRef, memFrame>>

\* The worker that holds batch i has gone through its records.
MemWorkerDone(i) ==
    /\ batchRefs[i].by # "none"
    /\ batchRefs' = [j \in 1..(Len(batchRefs) - 1) |->
                        IF j < i THEN batchRefs[j] ELSE batchRefs[j + 1]]
    /\ UNCHANGED <<heap, bufRef, memFrame>>

\* Slice specification: the consumer appends to and flushes the buffer, the
\* workers take and finish batches, all seen as slices over arrays.
NextCopy ==
    \/ \E pk \in CopyKeys : MemAppend(pk)
    \/ MemFlush
    \/ MemWorkerTake
    \/ \E i \in 1..Len(batchRefs) : MemWorkerDone(i)

SpecCopy == Init /\ [][NextCopy]_vars

\* Slot specification: one refresh lists more shards than the semaphore has
\* slots; readers fail at GetShardIterator, or end on a closed or a trimmed
\* shard; the consumer takes the errors.
NextSlots ==
    \/ DiscRecvSignal
    \/ DiscResolveOk(1)
    \/ DiscListOk([i \in 1..NumSlotShards |-> i])
    \/ DiscVisitShard
    \/ DiscEnqueue
    \/ Dispatcher
    \/ \E r \in ReaderIds : ReaderIterOk(r)
    \/ \E r \in ReaderIds : ReaderIterFail(r)
    \/ \E r \in ReaderIds : ReaderGetRecordsOk(r, 0, FALSE)
    \/ \E r \in ReaderIds : ReaderGetRecordsTrimmed(r)
    \/ \E r \in ReaderIds : ReaderPublishErr(r)
    \/ ConsumeError

SpecSlots == Init /\ [][NextSlots]_vars

\* Values of cfg.IteratorType: the two the program names, none, and another
\* iterator type of the provider.
IteratorTypes == {"TRIM_HORIZON", "LATEST", "", "AT_SEQUENCE_NUMBER"}

InitPolicySpec ==
    /\ InitSubscriber
    /\ InitConsumer(0)
    /\ InitClock([k \in {} |-> 0])
    /\ \E cfg \in IteratorTypes : InitPolicy(cfg)
    /\ InitMemory
    /\ InitKeys(PlainConfig)
    /\ InitSingle

\* Policy specification: discovery under every configured iterator type,
\* with periodic refresh, stream rotation and listings in any order.
NextPolicy ==
    \/ Ticker
    \/ DiscRecvSignal
    \/ \E a \in Arns : DiscResolveOk(a)
    \/ \E ids \in Listings : DiscListOk(ids)
    \/ DiscVisitShard
    \/ DiscEnqueue
    \/ Dispatcher

SpecPolicy == InitPolicySpec /\ [][NextPolicy]_vars

\* Cancellation specification: the subscriber of one stream with periodic
\* refresh and readers polling open or closed shards; the interrupt arrives
\* at any moment and the consumer returns on it.  The process ends when
\* RunStreamStyleVerification has returned: no goroutine takes a step after
\* that.
NextCancel ==
    \/ cpc = "run" /\ Ticker
    \/ cpc = "run" /\ DiscRecvSignal
    \/ cpc = "run" /\ DiscResolveOk(1)
    \/ cpc = "run" /\ \E ids \in PrefixListings(NumReadShards) : DiscListOk(ids)
    \/ cpc = "run" /\ DiscVisitShard
    \/ cpc = "run" /\ DiscEnqueue
    \/ cpc = "run" /\ Dispatcher
    \/ cpc = "run" /\ \E r \in ReaderIds : ReaderIterOk(r)
    \/ cpc = "run" /\ \E r \in ReaderIds, nxt \in BOOLEAN :
                         ReaderGetRecordsOk(r, 0, nxt)
    \/ Cancel
    \/ Shutdown

SpecCancel == Init /\ [][NextCancel]_vars

\* ----------------------------------------------------------------- claims
Running == {r \in ReaderIds : readers[r].pc # "exited"}

Started(s) == \E r \in ReaderIds : readers[r].shard = s

\* C1: at most one Shard Reader is ever started for a shard id, whatever the
\* listings (repeats, stream rotation), reader exits and errors; so no shard
\* id is read by two readers at once.
C1_OneReaderPerShard ==
    \A r1, r2 \in ReaderIds :
        readers[r1].shard = readers[r2].shard => r1 = r2

\* A shard whose reader failed is listed again under another stream
\* identifier.
C1_Witness ==
    /\ dpc = "each"
    /\ \E r \in ReaderIds :
         /\ readers[r].pc = "exited"
         /\ readers[r].cause = "error"
         /\ readers[r].shard = Head(dIds)
         /\ readers[r].arn # dArn

\* C2: allShards only grows: a shard id once inserted stays, whether its
\* reader runs, exited cleanly or with an error, or a later discovery failed
\* or no longer lists it.
C2_KnownShardsGrow == [][allShards \subseteq allShards']_vars

\* Discovery has failed and a reader has failed, and shards are known.
C2_Witness ==
    /\ dpc = "returned"
    /\ allShards # {}
    /\ \E r \in ReaderIds : readers[r].pc = "exited" /\ readers[r].cause = "error"
    /\ \E r \in ReaderIds : readers[r].pc = "exited" /\ readers[r].cause = "closed"

\* C3: the readers spawned and not yet exited number at most
\* shardProcessingLimit, however many shards were discovered.
C3_AtMostFiveReaders == Cardinality(Running) <= shardProcessingLimit

\* Five readers run and the dispatcher holds the request of a sixth shard.
C3_Witness ==
    /\ Cardinality(Running) = shardProcessingLimit
    /\ ppc = "acquire"
    /\ Cardinality(allShards) > shardProcessingLimit

\* C4: discovery is idempotent.  While a refresh goes over a listing whose
\* ids are all known, no step puts a request on shardsCh, the discovery
\* goroutine never reaches its channel send, and allShards stays as it is.
C4_DiscoveryIdempotent ==
    [][(dpc = "each" /\ Range(dIds) \subseteq allShards) =>
          /\ enq' = enq
          /\ allShards' = allShards
          /\ dpc' \in {"each", "wait"}
          /\ Len(shardsCh') <= Len(shardsCh)]_vars

\* A refresh starts over a listing of two ids, both known already.
C4_Witness ==
    /\ dpc = "each"
    /\ Len(dIds) = 2
    /\ Range(dIds) \subseteq allShards
    /\ Len(enq) > 0


\* C5 (as claimed): a failure of getLatestStreamArn or getShardIDs during a
\* periodic refresh ends only that refresh; the discovery goroutine lives on
\* to take later refresh signals.  Once the ticker's signal has been taken,
\* the refresh under way is a periodic one.
C5_PeriodicFailureKeepsDiscovery ==
    (ticks > 0 /\ tpc = "idle" /\ needUpdate = 0) => dpc # "returned"

\* Record numbers of reader r waiting on recCh.
OnRecCh(r) ==
    LET mine == SelectSeq(recCh, LAMBDA m : m.rd = r)
    IN  [i \in 1..Len(mine) |-> mine[i].seq]

ErrorsOnErrCh(r) == {i \in 1..Len(errCh) : errCh[i].from = r}

\* C6: a reader that fails with an error other than TrimmedDataAccess puts
\* the error on errCh exactly once and exits; its shard id stays known and
\* no other reader is started for it; the step changes nothing of the other
\* readers, the dispatcher and the discovery goroutine.
C6_ReaderErrorContained ==
    /\ [](\A r \in ReaderIds :
            /\ readers[r].errs <= 1
            /\ readers[r].errs = 1 => readers[r].pc = "exited"
            /\ (readers[r].cause = "error" /\ readers[r].pc = "exited") =>
                 /\ readers[r].errs = 1
                 /\ readers[r].shard \in allShards
                 /\ \A r2 \in ReaderIds :
                      readers[r2].shard = readers[r].shard => r2 = r)
    /\ [][\A r \in ReaderIds :
            (readers[r].pc = "err" /\ readers'[r].pc = "exited") =>
               /\ discVars' = discVars
               /\ dispVars' = dispVars
               /\ Len(readers') = Len(readers)
               /\ \A r2 \in ReaderIds : r2 # r => readers'[r2] = readers[r2]]_vars

\* A reader has failed, another reader polls, and a later refresh lists the
\* failed reader's shard again.
C6_Witness ==
    /\ dpc = "each"
    /\ ticks > 0
    /\ \E r, r2 \in ReaderIds :
         /\ readers[r].pc = "exited"
         /\ readers[r].cause = "error"
         /\ readers[r].shard = Head(dIds)
         /\ readers[r2].pc = "get"

\* No shard has two readers.
NoSecondReader ==
    \A r1, r2 \in ReaderIds : readers[r1].shard = readers[r2].shard => r1 = r2

C8_TrimmedIsCleanExit ==
    /\ [](/\ limit = Cardinality(Running)
          /\ \A r \in ReaderIds :
               readers[r].cause = "trimmed" =>
                  /\ readers[r].pc = "exited"
                  /\ readers[r].errs = 0
                  /\ ErrorsOnErrCh(r) = {}
                  /\ readers[r].shard \in allShards)
    /\ [][\A r \in ReaderIds :
            readers[r].cause = "trimmed" => readers'[r] = readers[r]]_vars

\* A reader that had delivered records met TrimmedDataAccess while another
\* reader is sending its page.
C8_Witness ==
    \E r, r2 \in ReaderIds :
        /\ readers[r].cause = "trimmed"
        /\ readers[r].given > 0
        /\ Len(delivered[r]) = readers[r].given
        /\ readers[r2].pc = "send"

\* C9: a reader ends without error as soon as it holds a nil token.  It
\* never calls GetRecords without a token; on a nil token from
\* GetShardIterator it ends having been handed no record; on a nil next
\* token it ends once the whole page is on recCh.
C9_NilTokenEndsReader ==
    \A r \in ReaderIds :
        /\ readers[r].pc = "get" => readers[r].next
        /\ readers[r].cause = "niliter" =>
             /\ readers[r].pc = "exited"
             /\ readers[r].given = 0
             /\ readers[r].errs = 0
        /\ readers[r].cause = "closed" =>
             /\ readers[r].pc = "exited"
             /\ ~readers[r].next
             /\ readers[r].page = <<>>
             /\ readers[r].errs = 0
             /\ delivered[r] \o OnRecCh(r) = [i \in 1..readers[r].given |-> i]
        /\ (readers[r].pc = "send" /\ ~readers[r].next) => readers[r].page # <<>>

\* One reader ended on a nil iterator, another on a nil next token after a
\* last page of records, a third on a nil next token with an empty page.
C9_Witness ==
    /\ \E r \in ReaderIds : readers[r].cause = "niliter"
    /\ \E r \in ReaderIds :
         /\ readers[r].cause = "closed"
         /\ readers[r].given = MaxRecords
         /\ Len(delivered[r]) = MaxRecords

\* C10: what the consumer received from a reader, then what of that reader
\* waits on recCh, then what is left of its page, is the records the
\* provider returned to that reader, in call order: nothing is lost,
\* duplicated or reordered, however the readers interleave.
C10_ShardOrderPreserved ==
    \A r \in ReaderIds :
        delivered[r] \o OnRecCh(r) \o readers[r].page
            = [i \in 1..readers[r].given |-> i]

\* Two readers' records interleave: one reader's two records are delivered,
\* the other's first is delivered and its second waits on recCh.
C10_Witness ==
    \E r1, r2 \in ReaderIds :
        /\ r1 # r2
        /\ delivered[r1] = <<1, 2>>
        /\ delivered[r2] = <<1>>
        /\ OnRecCh(r2) = <<2>>

\* C11: recCh never holds more than one record; a reader calls GetRecords
\* only when every record of its page has been sent; while recCh is full a
\* reader that is sending does not move; and every record handed to a
\* reader is with the consumer, on recCh or still in the reader's page, so
\* none is dropped when the consumer falls behind.
C11_FullChannelBlocksReader ==
    /\ [](/\ Len(recCh) <= 1
          /\ \A r \in ReaderIds :
               /\ readers[r].pc = "get" => readers[r].page = <<>>
               /\ Len(delivered[r]) + Len(OnRecCh(r)) + Len(readers[r].page)
                    = readers[r].given)
    /\ [][Len(recCh) = ChanCap =>
            \A r \in ReaderIds :
               readers[r].pc = "send" => readers'[r] = readers[r]]_vars

\* The consumer is behind: recCh is full and two readers wait to send, one
\* of them with two records left.
C11_Witness ==
    /\ Len(recCh) = ChanCap
    /\ \E r1, r2 \in ReaderIds :
         /\ r1 # r2
         /\ readers[r1].pc = "send"
         /\ readers[r2].pc = "send"
         /\ Len(readers[r1].page) >= 2

\* C12 (as claimed): in every reachable state, a worker in the middle of a
\* record included, the verdicts counted equal the validations counted.
C12_VerdictsMatchCount == vSuccess + vFailed = vCount

\* C13: validations counted never exceed the records counted.
C13_ValidationsWithinTotal == vCount <= total

\* With sample rate 2, a Remove and two other records were received, and
\* the one sampled record has been validated.
C13_Witness ==
    /\ sampleRate = 2
    /\ fed > total
    /\ total >= 2
    /\ vCount = 1
    /\ vSuccess + vFailed = 1

\* The consumer takes the record at the head of recCh.
Receives == cpc = "run" /\ recCh # <<>> /\ recCh' = Tail(recCh)

\* C14: receiving a Remove changes neither total, insert, modify, the event
\* ids nor the validation buffer; the sampling position being the total, it
\* does not advance.
C14_RemoveChangesNothing ==
    [][(Receives /\ Head(recCh).name = "REMOVE") =>
          /\ total' = total
          /\ insert' = insert
          /\ modify' = modify
          /\ eventIDs' = eventIDs
          /\ validationBuffer' = validationBuffer]_vars

\* Insert a, Remove b, Modify c at sample rate 1: two records counted, one
\* insert, one modification, the first and the third record sampled.
C14_Witness ==
    /\ sampleRate = 1
    /\ fed = 3
    /\ recCh = <<>>
    /\ total = 2
    /\ insert = 1
    /\ modify = 1
    /\ validationBuffer = <<1, 3>>

\* C15: total = insert + modify after any sequence of received records.
C15_TotalIsInsertPlusModify == total = insert + modify

\* Inserts, modifications and Removes have all been received.
C15_Witness ==
    /\ insert >= 2
    /\ modify >= 2
    /\ fed - Len(recCh) > total

\* C16: the distinct event ids recorded number at most total, and exactly
\* total when no counted record repeated an id recorded before.
C16_UniqueIdsWithinTotal ==
    /\ Cardinality(eventIDs) <= total
    /\ (Cardinality(eventIDs) = total) <=> ~repeated

\* Three records counted, two ids: one id came twice; a Remove was received.
C16_Witness ==
    /\ total = 3
    /\ Cardinality(eventIDs) = 2
    /\ repeated
    /\ fed - Len(recCh) > total

\* C17: a received record is appended to the validation buffer exactly when
\* it is no Remove, the total after counting it is a multiple of the sample
\* rate and its partition key is not empty; nothing else changes the buffer
\* here.  As long as no Remove came, the sampled records are at multiples of
\* the sample rate.
C17_SampledIffMultipleAndKeyed ==
    /\ [][Receives =>
            LET m == Head(recCh) IN
              IF m.name # "REMOVE" /\ total' % sampleRate = 0 /\ m.pk # 0
                THEN validationBuffer' = Append(validationBuffer, m.pk)
                ELSE validationBuffer' = validationBuffer]_vars
    /\ [](fed - Len(recCh) = total =>
            \A i \in 1..Len(validationBuffer) :
                validationBuffer[i] % sampleRate = 0)

\* Sample rate 3, ten inserts with non-empty keys: records 3, 6 and 9 are
\* sampled.
C17_Witness ==
    /\ sampleRate = 3
    /\ total = 10
    /\ insert = 10
    /\ validationBuffer = <<3, 6, 9>>

\* A call of processValidationBuffer.
Flushes == flushes' # flushes

\* C18: a flush with an empty buffer, on the flush tick or at shutdown,
\* publishes no batch, spawns no worker and changes neither the buffer nor
\* the statistics.
C18_EmptyFlushIsNoOp ==
    [][(Flushes /\ validationBuffer = <<>>) =>
          /\ validationCh' = validationCh
          /\ workers' = workers
          /\ validationBuffer' = <<>>
          /\ statsVars' = statsVars]_vars

\* The consumer returned after records were counted and none sampled: its
\* shutdown flush found the buffer empty, and no batch was ever published.
C18_Witness ==
    /\ cpc = "returned"
    /\ total > 0
    /\ validationBuffer = <<>>
    /\ validationCh = <<>>
    /\ workers = <<IdleWorker>>
    /\ vCount = 0

RECURSIVE Flatten(_)
\* The batches of a sequence of batches, one after the other.
Flatten(bs) == IF bs = <<>> THEN <<>> ELSE Head(bs) \o Flatten(Tail(bs))

\* Every sampled record not yet validated: in the buffer, in a batch on
\* validationCh, or in the batch a worker holds.
Held ==
    validationBuffer \o Flatten(validationCh)
        \o Flatten([w \in WorkerIds |-> workers[w].batch])

\* C19: a flush of a non-empty buffer empties the buffer and hands its
\* records, as one batch, either to validationCh (when it has room) or to
\* one new one-shot worker (when it is full); the channel worker takes a
\* queued batch whole; no record is in two places.
C19_FlushDropsNothing ==
    /\ [][(Flushes /\ validationBuffer # <<>>) =>
            /\ validationBuffer' = <<>>
            /\ IF Len(validationCh) < ValidationChCap
                 THEN /\ validationCh' = Append(validationCh, validationBuffer)
                      /\ workers' = workers
                 ELSE /\ validationCh' = validationCh
                      /\ Len(workers') = Len(workers) + 1
                      /\ workers'[Len(workers')].batch = validationBuffer
                      /\ workers'[Len(workers')].pc = "load"
                      /\ \A w \in WorkerIds : workers'[w] = workers[w]]_vars
    /\ [][validationCh' # validationCh =>
            \/ Flushes /\ validationCh' = Append(validationCh, validationBuffer)
            \/ /\ validationCh' = Tail(validationCh)
               /\ workers[1].pc = "idle"
               /\ workers'[1].batch = Head(validationCh)]_vars
    /\ [](Cardinality(Range(Held)) = Len(Held))

\* validationCh holds ten batches and the consumer flushed an eleventh to a
\* one-shot worker.
C19_Witness ==
    /\ Len(validationCh) = ValidationChCap
    /\ Len(workers) = 2
    /\ workers[2].pc = "load"
    /\ workers[2].batch # <<>>
    /\ validationBuffer = <<>>

\* Worker w only sits out a part of its wait in this step.
Waits(w) ==
    /\ workers[w].sleep > 0
    /\ workers'[w] = [workers[w] EXCEPT !.sleep = workers'[w].sleep]

\* C20: a worker makes one lookup for a record and a second one only when
\* the first did not find the item, never a third; the verdict is a success
\* exactly when a lookup found the item, and it adds one to exactly one of
\* the two verdict counters.
C20_OneRetryOnMiss ==
    /\ [](\A w \in WorkerIds :
            /\ workers[w].looks <= 2
            /\ workers[w].pc = "look1" => workers[w].looks = 0
            /\ workers[w].pc = "look2" =>
                  workers[w].looks = 1 /\ ~workers[w].hit
            /\ workers[w].pc \in {"vload", "vstore"} =>
                  /\ workers[w].looks \in {1, 2}
                  /\ workers[w].looks = 1 => workers[w].hit)
    /\ [][\A w \in WorkerIds :
            (workers[w].pc = "vstore" /\ workers'[w] # workers[w]) =>
               IF workers[w].hit
                 THEN vSuccess' = vSuccess + 1 /\ vFailed' = vFailed
                 ELSE vFailed' = vFailed + 1 /\ vSuccess' = vSuccess]_vars
    /\ [][\A w \in WorkerIds, p \in {"look1", "look2"} :
            (workers[w].pc = p /\ workers'[w] # workers[w] /\ ~Waits(w)) =>
               /\ workers[w].sleep = 0
               /\ workers'[w].looks = workers[w].looks + 1
               /\ workers'[w].pc = "look2" <=> (p = "look1" /\ ~workers'[w].hit)
               /\ workers'[w].pc = "vload" <=> (p = "look2" \/ workers'[w].hit)]_vars

\* A miss followed by a hit: the worker is about to write the success of a
\* record it looked up twice, after a record that failed both lookups.
C20_Witness ==
    /\ workers[1].pc = "vstore"
    /\ workers[1].looks = 2
    /\ workers[1].hit
    /\ workers[1].tmp = 0
    /\ vFailed = 1

\* The item of key k was visible within the replication wait and the retry
\* wait after its batch was handed over.
Timely(k) ==
    /\ k \in DOMAIN handedAt
    /\ k \in DOMAIN visibleFrom
    /\ visibleFrom[k] <= handedAt[k] + ReplicationWait + RetryWait

C22_CounterUpdatesAtomic ==
    \A w \in WorkerIds :
        /\ workers[w].pc = "store" => workers[w].tmp = vCount
        /\ workers[w].pc = "vstore" =>
              workers[w].tmp = IF workers[w].hit THEN vSuccess ELSE vFailed

\* C23: a consumer that observes the cancellation flushes the validation
\* buffer once, prints the final statistics once and returns; it waits for
\* no worker and no reader, and after it no record, tick or error is
\* processed.
C23_ShutdownFlushesOnceAndReturns ==
    /\ [](finalPrints = IF cpc = "returned" THEN 1 ELSE 0)
    /\ []((cpc = "run" /\ cancelled) => ENABLED Shutdown)
    /\ [][(cpc = "run" /\ cpc' = "returned") =>
            /\ cancelled
            /\ Flushes
            /\ validationBuffer' = <<>>
            /\ validationBuffer # <<>> =>
                  \/ validationCh' = Append(validationCh, validationBuffer)
                  \/ workers' = Append(workers, OneShotWorker(validationBuffer))
            /\ validationBuffer = <<>> => UNCHANGED <<validationCh, workers>>
            /\ UNCHANGED <<statsVars, recCh, errCh, delivered>>]_vars
    /\ [][cpc = "returned" =>
            /\ cpc' = "returned"
            /\ ~Flushes
            /\ Len(recCh') >= Len(recCh)
            /\ Len(errCh') >= Len(errCh)
            /\ UNCHANGED <<total, insert, modify, eventIDs, delivered,
                           validationBuffer, finalPrints>>]_vars

\* The consumer has returned after handing over a last batch, while the
\* channel worker is in the middle of a batch and a record and an error are
\* still waiting on their channels.
C23_Witness ==
    /\ cpc = "returned"
    /\ recCh # <<>>
    /\ errCh # <<>>
    /\ validationCh # <<>>
    /\ workers[1].pc = "look2"

\* C24: once the cancellation is raised the dispatcher starts no new Shard
\* Reader.
C24_NoSpawnAfterCancel ==
    [][cancelled => Len(readers') = Len(readers)]_vars

\* C25: once the cancellation is raised no provider read is started: no
\* reader goes into a further GetRecords (a reader leaves the one in flight
\* by exiting), and discovery starts no DescribeTable and no DescribeStream.
C25_NoReadAfterCancel ==
    [][cancelled =>
         /\ \A r \in ReaderIds :
               readers'[r].pc = "get" => readers[r].pc = "get"
         /\ ~(polls' # polls /\ readers' = readers)
         /\ dpc' \in {"resolve", "list"} => dpc' = dpc]_vars

\* C26: every request discovery enqueues, on the first refresh and on every
\* later one, carries the configured position policy: TRIM_HORIZON when
\* cfg.IteratorType is "TRIM_HORIZON", LATEST otherwise.
C26_RequestsCarryPolicy ==
    LET policy == IF cfgIteratorType = "TRIM_HORIZON" THEN "TRIM_HORIZON"
                  ELSE "LATEST"
    IN /\ \A i \in 1..Len(enq) : enq[i].type = policy
       /\ \A i \in 1..Len(shardsCh) : shardsCh[i].type = policy
       /\ pIn # NoReq => pIn.type = policy

\* Configured for TRIM_HORIZON: a second shard was enqueued by a later
\* refresh, under the other stream identifier.
C26_Witness ==
    /\ cfgIteratorType = "TRIM_HORIZON"
    /\ ticks > 0
    /\ Len(enq) = 2
    /\ enq[1].arn # enq[2].arn
    /\ enq[2].type = "TRIM_HORIZON"

\* C27: the ticker never blocks on the refresh channel: whenever it is at
\* its send, the send can complete at once, whatever discovery is doing.
C27_TickerNeverBlocks == tpc = "send" => ENABLED TickerSend

\* C27 as the code has it: the initial signal is on the channel before any
\* goroutine has taken a step, the channel never holds more than one signal,
\* and a tick that finds the channel full makes the ticker wait at its send
\* until discovery has taken the pending signal; its own signal is then
\* enqueued, not dropped.
C27_TickerWaitsWhenFull ==
    /\ (needUpdate = 1 /\ tpc = "idle" /\ dpc = "wait" /\ ppc = "sleep"
        /\ readers = <<>>)
    /\ [](needUpdate \in 0..ChanCap)
    /\ [][(tpc = "send" /\ needUpdate = ChanCap) =>
            (tpc' = "send" /\ ticks' = ticks /\ needUpdate' <= needUpdate)]_vars
    /\ [][(tpc = "send" /\ tpc' = "idle") =>
            needUpdate' = needUpdate + 1]_vars

\* The tick came before discovery took the initial signal: the ticker is at
\* its send and the channel is full.
C27_Witness ==
    /\ tpc = "send"
    /\ needUpdate = ChanCap
    /\ ticks = 1
    /\ dpc = "wait"

\* Reader r is still reading: in GetShardIterator, in GetRecords or sending
\* its page.
Reading(r) == readers[r].pc \in {"iter", "get", "send"}

\* C28: the slot of a reader is released when the reader exits, cleanly, on
\* a trimmed shard or with an error: the slots held are the readers not yet
\* exited, and a request that waits for a slot never waits for a reader that
\* has finished reading.
C28_SlotFreedWhenReadingEnds ==
    /\ limit = Cardinality(Running)
    /\ (ppc = "acquire" /\ limit = shardProcessingLimit) =>
          \A r \in Running : Reading(r) \/ ENABLED ReaderPublishErr(r)

\* C28 as the code has it: the slots held are the readers not yet exited; a
\* reader that ends on a closed or a trimmed shard releases its slot in the
\* step that ends its reading; a reader that failed keeps its slot until
\* errCh has accepted its error, and releases it in that step.
C28_SlotHeldUntilErrorAccepted ==
    /\ [](limit = Cardinality(Running))
    /\ [](\A r \in Running :
            \/ Reading(r)
            \/ /\ readers[r].pc = "err"
               /\ Len(errCh) < ChanCap => ENABLED ReaderPublishErr(r))
    /\ [][\A r \in ReaderIds :
            (Reading(r) /\ readers'[r].pc = "exited") =>
               /\ readers'[r].cause \in {"closed", "trimmed"}
               /\ limit' = limit - 1]_vars
    /\ [][\A r \in ReaderIds :
            (readers[r].pc = "err" /\ readers'[r] # readers[r]) =>
               /\ readers'[r].pc = "exited"
               /\ readers'[r].cause = "error"
               /\ Len(errCh') = Len(errCh) + 1
               /\ limit' = limit - 1]_vars

\* A request waits for a slot while a failed reader, done reading, holds
\* one: errCh is full with the error of a reader that failed before it.
C28_Witness ==
    /\ ppc = "acquire"
    /\ limit = shardProcessingLimit
    /\ Len(errCh) = ChanCap
    /\ \E r \in ReaderIds : readers[r].pc = "err"
    /\ \E r \in ReaderIds : readers[r].pc = "exited" /\ readers[r].cause = "error"

C30_BatchIsIndependentCopy ==
    /\ \A i \in 1..Len(batchRefs) :
          /\ batchRefs[i].len = Len(batchRefs[i].snap)
          /\ Contents(batchRefs[i]) = batchRefs[i].snap
          /\ batchRefs[i].arr # bufRef.arr
    /\ \A i, j \in 1..Len(batchRefs) :
          batchRefs[i].arr = batchRefs[j].arr => i = j

\* After a flush the consumer appended into the array the buffer had at the
\* flush, overwriting its first element with another key, while the batch
\* of that flush is held by the channel worker and a later batch waits.
C30_Witness ==
    /\ Len(batchRefs) = 2
    /\ batchRefs[1].by = "channel"
    /\ batchRefs[2].by = "none"
    /\ bufRef.len > 0
    /\ heap[bufRef.arr][1] # batchRefs[2].snap[1]
    /\ Len(heap[bufRef.arr]) >= batchRefs[2].len

\* --------------------------------------------------- the keys of a record
\* Records fed to the consumer in the key-level specification.
MaxKeyFeed == 2

KeyNames == {"id", "ts"}
KeyValues == {"", "a"}
\* "S" is *types.AttributeValueMemberS, "N" any other member type.
AttrTypes == {"S", "N"}

\* rec.Dynamodb.Keys : a set of <<name, type, value>>, one per name at most.
KeyMaps ==
    {m \in SUBSET (KeyNames \X AttrTypes \X KeyValues) :
        \A a \in m, b \in m : a[1] = b[1] => a = b}

\* The stream records: rec.Dynamodb is nil ("nil"), or its Keys map is nil
\* ("nilKeys"), or it carries a Keys map ("set").
StreamRecords ==
    [name : {"INSERT", "MODIFY", "REMOVE"}, id : {1},
     Dynamodb : {"nil", "nilKeys"}, Keys : {{}}]
    \cup [name : {"INSERT", "MODIFY", "REMOVE"}, id : {1},
          Dynamodb : {"set"}, Keys : KeyMaps]

\* The configurations of the key-level specification.
KeyConfigs ==
    [PartitionKey : {"id"}, SortKey : {"", "ts"},
     VerifyOn : {"source", "target", ""}, TargetTable : {"t1", "t2"}]

\* Variant of KeyValue that takes the value of an attribute of any type.
KeyValue_AnyType(rec, name) ==
    IF rec.Dynamodb = "set" /\ \E a \in rec.Keys : a[1] = name
      THEN (CHOOSE a \in rec.Keys : a[1] = name)[3]
      ELSE ""

\* if pkAttr, ok := rec.Dynamodb.Keys[name]; ok { if pkStr, ok :=
\* pkAttr.(*types.AttributeValueMemberS); ok { value = pkStr.Value } } under
\* the guard rec.Dynamodb != nil && rec.Dynamodb.Keys != nil.
KeyValue(rec, name) ==
    IF rec.Dynamodb = "set" /\ \E a \in rec.Keys : a[1] = name /\ a[2] = "S"
      THEN (CHOOSE a \in rec.Keys : a[1] = name)[3]
      ELSE ""

\* The two values extracted from rec: the sort value only when cfg.SortKey
\* is not empty.
ExtractKeys(rec) ==
    [PartitionKeyValue |-> KeyValue(rec, config.PartitionKey),
     SortKeyValue |-> IF config.SortKey # ""
                        THEN KeyValue(rec, config.SortKey)
                        ELSE ""]

\* The subscriber, seen from the consumer: some reader sends the stream
\* record rec (recCh <- &rec).
KeysSend(rec) ==
    /\ fed < MaxKeyFeed
    /\ Len(recCh) < ChanCap
    /\ recCh' = Append(recCh, rec)
    /\ fed' = fed + 1
    /\ UNCHANGED <<tickerVars, discVars, dispVars, limit, readers, errCh,
                   delivered, polls, sampleRate, cpc, statsVars, repeated,
                   validationBuffer, validationCh, workers, flushes,
                   cancelVars, clockVars, handedAt, policyVars, keyVars,
                   single, memVars>>

\* case rec := <-recCh, with the record's keys: a Remove is skipped; any
\* other record is counted, its event id recorded, its key values extracted,
\* and it is sampled when the new total is a multiple of the sample rate and
\* its partition value is not empty.
KeysReceive ==
    /\ cpc = "run"
    /\ recCh # <<>>
    /\ LET rec == Head(recCh)
           k == ExtractKeys(rec) IN
         IF rec.name = "REMOVE"
           THEN UNCHANGED <<total, insert, modify, eventIDs, repeated,
                            keyBuffer>>
           ELSE /\ total' = total + 1
                /\ insert' = IF rec.name = "INSERT" THEN insert + 1 ELSE insert
                /\ modify' = IF rec.name = "MODIFY" THEN modify + 1 ELSE modify
                /\ eventIDs' = eventIDs \cup {rec.id}
                /\ repeated' = (repeated \/ rec.id \in eventIDs)
                /\ keyBuffer' =
                     IF (total + 1) % sampleRate = 0
                        /\ k.PartitionKeyValue # ""
                       THEN Append(keyBuffer, k)
                       ELSE keyBuffer
    /\ recCh' = Tail(recCh)
    /\ UNCHANGED <<tickerVars, discVars, dispVars, limit, readers, errCh,
                   delivered, polls, sampleRate, cpc, vCount, vSuccess,
                   vFailed, validationBuffer, validationCh, workers, fed,
                   flushes, cancelVars, clockVars, handedAt, policyVars,
                   config, verified, getItem, single, memVars>>

\* Variant of GetItemKey that names the sort key whenever one is configured.
GetItemKey_SortWheneverConfigured(r) ==
    {<<config.PartitionKey, "S", r.PartitionKeyValue>>}
    \cup (IF config.SortKey # ""
            THEN {<<config.SortKey, "S", r.SortKeyValue>>}
            ELSE {})

\* keys := {cfg.PartitionKey: S(partitionKeyValue)}, and under cfg.SortKey
\* != "" && sortKeyValue != "" also keys[cfg.SortKey] = S(sortKeyValue).
GetItemKey(r) ==
    {<<config.PartitionKey, "S", r.PartitionKeyValue>>}
    \cup (IF config.SortKey # "" /\ r.SortKeyValue # ""
            THEN {<<config.SortKey, "S", r.SortKeyValue>>}
            ELSE {})

\* Variant of LookupClient that always looks up the source.
LookupClient_AlwaysSource(c) == "source"

\* client := cfg.SourceClient, replaced by cfg.TargetClient when
\* cfg.VerifyOn == "target".
LookupClient(c) == IF c.VerifyOn = "target" THEN "target" ELSE "source"

\* A worker calls verifyInTable on the oldest sampled record: it builds the
\* key, chooses the client and the table, and calls GetItem.  (The flush and
\* the batches between the buffer and the worker are those of
\* ProcessValidationBuffer and are not told apart at this level.)
KeysVerify ==
    /\ keyBuffer # <<>>
    /\ getItem' = [client |-> LookupClient(config),
                   TableName |-> config.TargetTable,
                   Key |-> GetItemKey(Head(keyBuffer))]
    /\ keyBuffer' = Tail(keyBuffer)
    /\ UNCHANGED <<tickerVars, discVars, dispVars, limit, readers, recCh,
                   errCh, delivered, polls, sampleRate, cpc, statsVars,
                   repeated, validationBuffer, validationCh, workers, fed,
                   flushes, cancelVars, clockVars, handedAt, policyVars,
                   config, verified, single, memVars>>

InitKeySpec ==
    /\ InitSubscriber
    /\ \E n \in {1, 2} : InitConsumer(n)
    /\ InitClock([k \in {} |-> 0])
    /\ InitPolicy("LATEST")
    /\ InitMemory
    /\ \E c \in KeyConfigs : InitKeys(c)
    /\ InitSingle

NextKeys ==
    \/ \E rec \in StreamRecords : KeysSend(rec)
    \/ KeysReceive
    \/ KeysVerify

SpecKeys == InitKeySpec /\ [][NextKeys]_vars

\* ------------------------------------------------------------ C31 .. C40
\* C31: the key of every GetItem lookup holds the partition-key attribute
\* with the record's partition value, holds the sort-key attribute exactly
\* when a sort-key name is configured and the record's sort value is not
\* empty (then with that value), and holds no other attribute.
C31_LookupKeyContents ==
    [][(keyBuffer # <<>> /\ keyBuffer' = Tail(keyBuffer)) =>
         LET r == Head(keyBuffer)
             K == getItem'.Key IN
           /\ <<config.PartitionKey, "S", r.PartitionKeyValue>> \in K
           /\ (\E a \in K : a[1] = config.SortKey)
                <=> (config.SortKey # "" /\ r.SortKeyValue # "")
           /\ \A a \in K :
                \/ a = <<config.PartitionKey, "S", r.PartitionKeyValue>>
                \/ a = <<config.SortKey, "S", r.SortKeyValue>>]_vars

\* C31 witness: a lookup was made for a record without a sort value although
\* a sort-key name is configured; its key holds the partition key alone.
C31_Witness ==
    /\ config.SortKey = "ts"
    /\ getItem # NoCall
    /\ Cardinality(getItem.Key) = 1

\* C32: receiving a record other than a Remove counts it, and samples it
\* exactly when the new total is a multiple of the sample rate and its keys
\* map has a string entry with a non-empty value under the partition-key
\* name; the sampled record carries that value, and as sort value the value
\* of the string entry under the configured sort-key name, or the empty
\* string when there is no such name or no such entry.
C32_ExtractionAndSampling ==
    [][(recCh # <<>> /\ recCh' = Tail(recCh) /\ Head(recCh).name # "REMOVE") =>
         LET rec == Head(recCh)
             str(n) == {v \in KeyValues :
                          rec.Dynamodb = "set" /\ <<n, "S", v>> \in rec.Keys}
             pv == IF str(config.PartitionKey) = {} THEN ""
                   ELSE CHOOSE v \in str(config.PartitionKey) : TRUE
             sv == IF config.SortKey = "" \/ str(config.SortKey) = {} THEN ""
                   ELSE CHOOSE v \in str(config.SortKey) : TRUE IN
           /\ total' = total + 1
           /\ keyBuffer' =
                IF pv # "" /\ total' % sampleRate = 0
                  THEN Append(keyBuffer, [PartitionKeyValue |-> pv,
                                          SortKeyValue |-> sv])
                  ELSE keyBuffer]_vars

\* C32 witness: at sample rate 1 two records were counted; one was sampled
\* with both its values, the other had no partition value and was not.
C32_Witness ==
    /\ sampleRate = 1
    /\ total = 2
    /\ getItem = NoCall
    /\ Len(keyBuffer) = 1
    /\ keyBuffer[1].SortKeyValue # ""

C33_ErrorNeverStopsConsumer ==
    /\ [][(errCh # <<>> /\ errCh' = Tail(errCh)) =>
            /\ cpc' = "run"
            /\ UNCHANGED <<statsVars, validationBuffer, validationCh,
                           workers, recCh>>]_vars
    /\ []((recCh # <<>> /\ \E r \in ReaderIds : readers[r].errs > 0)
            => ENABLED ConsumeRecord)

\* C33 witness: a reader's error was received (errCh is empty again), a
\* record had been counted before, and another record waits on recCh with
\* the consumer still in its loop.
C33_Witness ==
    /\ \E r \in ReaderIds : readers[r].errs > 0
    /\ errCh = <<>>
    /\ cpc = "run"
    /\ total > 0
    /\ recCh # <<>>

\* ------------------------------------------- GetStreamData (single shard)
\* Shards the single-shard goroutine starts to read, and records the stream
\* gives it.
MaxSingleReads == 3
MaxSingleFeed == 2

\* time.Sleep of processShard, in milliseconds: 10 * time.Millisecond,
\* time.Second, 10 * time.Second.
ClosedPause == 10
RecordPause == 1000
EmptyPause == 10000

\* shard.ParentShardId of the three shards of the stream (0: nil): shard 1
\* was split into shards 2 and 3.
ParentShardId == <<0, 1, 1>>

\* out.StreamDescription.Shards : the shards of the stream, any of them, in
\* any order.
SingleListings ==
    {l \in UNION {[1..n -> 1..3] : n \in 0..3} :
        \A i \in 1..Len(l), j \in 1..Len(l) : l[i] = l[j] => i = j}

\* Variant of FindProperShardID that returns the last child listed.
FindProperShardID_Last(prev, l) ==
    IF l = <<>> THEN 0
    ELSE IF prev = 0 THEN l[1]
    ELSE LET m == {i \in 1..Len(l) : ParentShardId[l[i]] # 0
                                     /\ ParentShardId[l[i]] = prev} IN
           IF m = {} THEN 0
           ELSE l[CHOOSE i \in m : \A j \in m : j <= i]

\* findProperShardID once both provider calls have succeeded with listing
\* l: nil on an empty listing, Shards[0] without a previous shard, else the
\* first shard whose ParentShardId is the previous shard, nil without one.
FindProperShardID(prev, l) ==
    IF l = <<>> THEN 0
    ELSE IF prev = 0 THEN l[1]
    ELSE LET m == {i \in 1..Len(l) : ParentShardId[l[i]] # 0
                                     /\ ParentShardId[l[i]] = prev} IN
           IF m = {} THEN 0
           ELSE l[CHOOSE i \in m : \A j \in m : i <= j]

\* Variant of PauseAfter that looks at the records before the token.
PauseAfter_EmptyFirst(n, nxt) ==
    IF n = 0 THEN EmptyPause
    ELSE IF ~nxt THEN ClosedPause
    ELSE RecordPause

\* sleep := time.Second; if next == nil { sleep = 10 ms } else if
\* len(recOut.Records) == 0 { sleep = 10 s }
PauseAfter(n, nxt) ==
    IF ~nxt THEN ClosedPause
    ELSE IF n = 0 THEN EmptyPause
    ELSE RecordPause

\* What the steps of the single-shard goroutine leave alone.
singleFrame == <<tickerVars, discVars, dispVars, limit, readers, delivered,
                 polls, sampleRate, cpc, statsVars, repeated,
                 validationBuffer, validationCh, workers, flushes,
                 cancelVars, clockVars, handedAt, policyVars, keyVars,
                 memVars>>

\* prevShardID = shardID; findProperShardID succeeds on listing l.  With a
\* shard the goroutine calls processShard, without one it sleeps.
SingleFind(l) ==
    /\ single.pc = "find"
    /\ LET id == FindProperShardID(single.shardID, l) IN
         single' = [single EXCEPT !.prevShardID = single.shardID,
                                  !.shardID = id,
                                  !.shards = l,
                                  !.pc = IF id # 0 THEN "iter" ELSE "sleep"]
    /\ UNCHANGED <<recCh, errCh, fed, singleFrame>>

\* prevShardID = shardID; findProperShardID fails (DescribeTable or
\* DescribeStream fails, or the table has no stream arn) and returns no
\* shard with the error.
SingleFindFail ==
    /\ single.pc = "find"
    /\ single' = [single EXCEPT !.prevShardID = single.shardID,
                                !.shardID = 0,
                                !.pc = "pubFind"]
    /\ UNCHANGED <<recCh, errCh, fed, singleFrame>>

\* errCh <- err after findProperShardID failed (blocks while errCh is
\* full); shardID is nil, so the goroutine goes on to sleep.
SinglePublishFindErr ==
    /\ single.pc = "pubFind"
    /\ Len(errCh) < ChanCap
    /\ errCh' = Append(errCh, [from |-> 0, kind |-> "provider"])
    /\ single' = [single EXCEPT !.pc = "sleep"]
    /\ UNCHANGED <<recCh, fed, singleFrame>>

\* time.Sleep(10 * time.Second) is over: the next turn of the loop.
SingleSleepOver ==
    /\ single.pc = "sleep"
    /\ single' = [single EXCEPT !.pc = "find", !.shards = <<>>]
    /\ UNCHANGED <<recCh, errCh, fed, singleFrame>>

\* processShard: GetShardIterator returns an iterator.
SingleIterOk ==
    /\ single.pc = "iter"
    /\ Len(single.reads) < MaxSingleReads
    /\ single' = [single EXCEPT !.pc = "get", !.next = TRUE,
                                !.shards = <<>>,
                                !.reads = Append(@, single.shardID)]
    /\ UNCHANGED <<recCh, errCh, fed, singleFrame>>

\* processShard: GetShardIterator returns no iterator; processShard returns
\* nil and the loop takes its next turn.
SingleIterNil ==
    /\ single.pc = "iter"
    /\ single' = [single EXCEPT !.pc = "find", !.shards = <<>>]
    /\ UNCHANGED <<recCh, errCh, fed, singleFrame>>

\* processShard: GetShardIterator fails; processShard returns the error.
SingleIterFail ==
    /\ single.pc = "iter"
    /\ single' = [single EXCEPT !.pc = "pubProc", !.shards = <<>>]
    /\ UNCHANGED <<recCh, errCh, fed, singleFrame>>

\* The reader once the records of a page are sent: it chooses its pause.
SingleAfterPage(g) ==
    [g EXCEPT !.pc = "pause", !.sleep = PauseAfter(g.got, g.next)]

\* processShard: GetRecords returns n records and a next token (nxt) or
\* none.
SingleGetRecordsOk(n, nxt) ==
    /\ single.pc = "get"
    /\ fed + n <= MaxSingleFeed
    /\ fed' = fed + n
    /\ LET g == [single EXCEPT !.page = n, !.got = n, !.next = nxt,
                               !.pc = "send"] IN
         single' = IF n = 0 THEN SingleAfterPage(g) ELSE g
    /\ UNCHANGED <<recCh, errCh, singleFrame>>

\* processShard: GetRecords fails with TrimmedDataAccessException;
\* processShard returns nil.
SingleGetRecordsTrimmed ==
    /\ single.pc = "get"
    /\ single' = [single EXCEPT !.pc = "find", !.next = FALSE]
    /\ UNCHANGED <<recCh, errCh, fed, singleFrame>>

\* processShard: GetRecords fails otherwise; processShard returns the error.
SingleGetRecordsFail ==
    /\ single.pc = "get"
    /\ single' = [single EXCEPT !.pc = "pubProc", !.next = FALSE]
    /\ UNCHANGED <<recCh, errCh, fed, singleFrame>>

\* recCh <- &rec (blocks while recCh is full); after the last record of the
\* page the pause is chosen.
SingleSendRecord ==
    /\ single.pc = "send"
    /\ Len(recCh) < ChanCap
    /\ recCh' = Append(recCh, [rd |-> 0, seq |-> 0, name |-> "INSERT",
                                id |-> 1, pk |-> 1])
    /\ LET g == [single EXCEPT !.page = @ - 1] IN
         single' = IF g.page = 0 THEN SingleAfterPage(g) ELSE g
    /\ UNCHANGED <<errCh, fed, singleFrame>>

\* time.Sleep(sleep) is over: with a token the next GetRecords call,
\* without one processShard returns nil, the shard read to its end.
SinglePauseOver ==
    /\ single.pc = "pause"
    /\ single' = IF single.next
                   THEN [single EXCEPT !.pc = "get", !.sleep = 0, !.got = 0]
                   ELSE [single EXCEPT !.pc = "find", !.sleep = 0, !.got = 0,
                                       !.ended = @ \cup {single.shardID}]
    /\ UNCHANGED <<recCh, errCh, fed, singleFrame>>

\* errCh <- err after processShard failed (blocks while errCh is full),
\* then shardID = prevShardID; without a shard the goroutine sleeps.
SinglePublishProcErr ==
    /\ single.pc = "pubProc"
    /\ Len(errCh) < ChanCap
    /\ errCh' = Append(errCh, [from |-> 0, kind |-> "provider"])
    /\ single' = [single EXCEPT !.shardID = single.prevShardID,
                                !.pc = IF single.prevShardID = 0
                                         THEN "sleep" ELSE "find"]
    /\ UNCHANGED <<recCh, fed, singleFrame>>

NextSingle ==
    \/ \E l \in SingleListings : SingleFind(l)
    \/ SingleFindFail
    \/ SinglePublishFindErr
    \/ SingleSleepOver
    \/ SingleIterOk
    \/ SingleIterNil
    \/ SingleIterFail
    \/ \E n \in 0..MaxSingleFeed, nxt \in BOOLEAN : SingleGetRecordsOk(n, nxt)
    \/ SingleGetRecordsTrimmed
    \/ SingleGetRecordsFail
    \/ SingleSendRecord
    \/ SinglePauseOver
    \/ SinglePublishProcErr
    \/ ConsumeRecord
    \/ ConsumeError

\* Single-shard specification: GetStreamData instead of GetStreamDataAsync,
\* with every outcome of its provider calls, and the consumer.
SpecSingle == Init /\ [][NextSingle]_vars

C35_NextReadIsChildOfCompleted ==
    [][single'.reads # single.reads =>
         LET s == single'.reads[Len(single'.reads)] IN
           /\ s \notin single.ended
           /\ (single.reads # <<>>
               /\ single.reads[Len(single.reads)] \in single.ended)
                => ParentShardId[s] = single.reads[Len(single.reads)]]_vars

\* C37: the pause entered after a successful GetRecords call is 10 ms when
\* the response has no next token, else 10 s when it has no records, else
\* 1 s; outside that pause no pause is pending, so none follows a failed
\* call.
C37_PauseFromResponse ==
    /\ [][(single'.pc = "pause" /\ single.pc # "pause") =>
            single'.sleep = (IF ~single'.next THEN ClosedPause
                             ELSE IF single'.got = 0 THEN EmptyPause
                             ELSE RecordPause)]_vars
    /\ [][(single.pc = "get" /\ single'.pc \in {"pubProc", "find"}) =>
            single'.sleep = 0]_vars
    /\ [](single.pc # "pause" => single.sleep = 0)

\* C37 witness: a response without records and without a next token; the
\* reader pauses for 10 ms.
C37_Witness ==
    /\ single.pc = "pause"
    /\ single.got = 0
    /\ ~single.next
    /\ single.sleep = ClosedPause

\* C38: a first lookup that ends in a provider error is followed by the
\* retry after the retry wait, as a lookup that found nothing; a record
\* whose lookups erred and found nothing is counted in ValidationFailed and
\* the worker goes on with the next record of its batch; no step of a
\* worker changes errCh or ends the consumer.
C38_LookupErrorIsAMiss ==
    /\ [][\A w \in WorkerIds :
            (workers[w].pc = "look1" /\ workers'[w] # workers[w]
             /\ ~workers'[w].hit) =>
               /\ workers'[w].pc = "look2"
               /\ workers'[w].looks = 1
               /\ workers'[w].sleep = RetryWait]_vars
    /\ [][\A w \in WorkerIds :
            (workers[w].pc = "vstore" /\ workers[w].erred /\ ~workers[w].hit
             /\ workers'[w] # workers[w]) =>
               /\ workers[w].looks = 2
               /\ vFailed' = workers[w].tmp + 1
               /\ vSuccess' = vSuccess
               /\ workers[w].i < Len(workers[w].batch) =>
                    /\ workers'[w].pc = "load"
                    /\ workers'[w].batch = workers[w].batch
                    /\ workers'[w].i = workers[w].i + 1]_vars
    /\ [][workers' # workers => (errCh' = errCh /\ cpc' = cpc)]_vars

\* C38 witness: a lookup of the first record of a batch of two erred, the
\* retry was made and found nothing either; the worker is about to count
\* the record as failed.
C38_Witness ==
    \E w \in WorkerIds :
        /\ workers[w].pc = "vstore"
        /\ workers[w].erred
        /\ workers[w].looks = 2
        /\ ~workers[w].hit
        /\ workers[w].i < Len(workers[w].batch)

\* C39: whenever validationCh is empty and no worker is at work on a batch,
\* ValidationCount equals the number of records handed over in batches so
\* far, and so does ValidationSuccess + ValidationFailed.
C39_NoIncrementLost ==
    (/\ validationCh = <<>>
     /\ \A w \in WorkerIds : workers[w].pc \in {"idle", "done"})
      => /\ vCount = Cardinality(DOMAIN handedAt)
         /\ vSuccess + vFailed = Cardinality(DOMAIN handedAt)

\* C40: whenever the discovery goroutine does not hold the lock, the ids in
\* allShards are exactly the shard ids of the requests put on shardsCh so
\* far, each id in one request; and while shardsCh is full the goroutine
\* stays at its send, the lock held and the request kept.
C40_KnownIffEnqueued ==
    /\ [](~lock =>
            /\ allShards = {enq[i].shard : i \in DOMAIN enq}
            /\ \A i \in DOMAIN enq, j \in DOMAIN enq :
                 enq[i].shard = enq[j].shard => i = j)
    /\ [][(dpc = "send" /\ Len(shardsCh) = shardProcessingLimit) =>
            /\ dpc' = "send"
            /\ lock'
            /\ UNCHANGED <<allShards, enq, dIds>>]_vars

\* C40 witness: five requests fill shardsCh and the discovery goroutine,
\* holding the lock, is blocked on the send for a sixth shard it has already
\* put in allShards.
C40_Witness ==
    /\ lock
    /\ dpc = "send"
    /\ Len(shardsCh) = shardProcessingLimit
    /\ Len(enq) = shardProcessingLimit
    /\ Cardinality(allShards) = shardProcessingLimit + 1

====
